---- MODULE Spec2Model ----
(***************************************************************************)
(* FASTCLIPPER: the keyframe track (FrameRecorder, src/src/editor/         *)
(* frameRecorder.js) and the editor that owns it (VideoEditor,             *)
(* src/src/components/editor/videoEditor.js) with its renderer             *)
(* (VideoRenderer, src/unnamed/part_002).                                  *)
(*                                                                         *)
(* Time is counted in whole milliseconds (the code holds seconds as        *)
(* floats; KEYFRAME_INTERVAL / 1000 seconds is KEYFRAME_INTERVAL ms).      *)
(* Selection fields are integers (zoom in tenths); an interpolated field   *)
(* is an exact rational <<numerator, denominator>>.                        *)
(* Not modelled: the recorder's currentTime and recordedAt (written, never  *)
(* read by the operations below), the Logger calls, the DOM updates.       *)
(***************************************************************************)
EXTENDS Integers, Sequences, FiniteSets, TLC

VARIABLES
    isRecording,       \* FrameRecorder.isRecording
    keyframes,         \* FrameRecorder.keyframes: the Map, as its entries in insertion order
    videoDuration,     \* FrameRecorder.videoDuration (ms)
    lastKeyframeTime,  \* FrameRecorder.lastKeyframeTime (ms)
    lastOp,            \* the operation that ran last
    emitted,           \* the frameRecorderEvents the last operation dispatched, in order
    thrown,            \* what the last operation threw to its caller ("none": it returned)
    result,            \* what the last read operation returned
    imported,          \* the keyframesData the last operation was given, if it was an import
    session,           \* history of the current recording session (record() calls)
    isInitialized,     \* VideoEditor.isInitialized: interface built, listeners attached
    isLoaded,          \* VideoEditor.renderer.isLoaded
    editorDuration,    \* VideoEditor.duration (ms); 0 until metadata has been read
    trimStart,         \* VideoEditor.trimStart (ms)
    trimEnd,           \* VideoEditor.trimEnd (ms)
    activeTrimHandle,  \* VideoEditor.activeTrimHandle while isTrimming, else "none"
    isPlaying,         \* VideoEditor.isPlaying
    editorTime,        \* VideoEditor.currentTime (ms)
    currentMode,       \* VideoEditor.currentMode
    videoBlob,         \* whether VideoEditor.videoBlob holds an uploaded file
    pendingLoad,       \* the source whose loadedmetadata event is still to come
    handled,           \* the editor handler that ran last and how it ended
    trimHistory,       \* history of the trim range: initialised, adjusted by the user
    controller,        \* VideoEditor.selectionController: the SelectionController object
    pointed,           \* the controller handler that ran last, its event, whom it notified
    anchor,            \* history: pointer minus rect origin at the press that began the drag
    gestures,          \* history: the mousemove and wheel events handled so far
    landscapeCanvas,   \* VideoEditor.landscapeCanvas: its width and height, the pending listener
    sourceVideo,       \* VideoEditor.sourceVideo: videoWidth and videoHeight (0 until metadata)
    mapped             \* the video point last drawn, where it was drawn, where the crop reads it

recorderVars ==
    <<isRecording, keyframes, videoDuration, lastKeyframeTime, lastOp, emitted, thrown,
      result, imported, session>>

editorVars ==
    <<isInitialized, isLoaded, editorDuration, trimStart, trimEnd, activeTrimHandle,
      isPlaying, editorTime, currentMode, videoBlob, pendingLoad, handled, trimHistory>>

controllerVars == <<controller, pointed, anchor, gestures>>

canvasVars == <<landscapeCanvas, sourceVideo, mapped>>

vars == <<recorderVars, editorVars, controllerVars, canvasVars>>

-----------------------------------------------------------------------------
(* Bounds of the model *)

TimeStep == 11
MaxTick == 3
MaxKeyframes == 2
MaxImport == 1
MaxTrack == 2
MaxCalls == 3
ExportWindow == 2
MaxGestures == 3

(* Program constants *)

KEYFRAME_INTERVAL == 33

Times == {k * TimeStep : k \in -1..MaxTick}
Durations == {(MaxTick - 2) * TimeStep, MaxTick * TimeStep}

SelA == [x |-> 0, y |-> 0, width |-> 100, height |-> 100, zoom |-> 10]
SelB == [x |-> 100, y |-> 40, width |-> 60, height |-> 80, zoom |-> 15]
Selections == {SelA, SelB}

-----------------------------------------------------------------------------
(* Exact rational arithmetic for the float expressions of the code *)

Abs(n) == IF n < 0 THEN -n ELSE n

RECURSIVE GCD(_, _)
GCD(a, b) == IF b = 0 THEN a ELSE GCD(b, a % b)

Rat(n, d) ==
    LET g == GCD(Abs(n), Abs(d))
        s == IF d < 0 THEN -1 ELSE 1
    IN  <<(s * n) \div g, (s * d) \div g>>

IntRat(n) == <<n, 1>>
RAdd(a, b) == Rat(a[1] * b[2] + b[1] * a[2], a[2] * b[2])
RSub(a, b) == Rat(a[1] * b[2] - b[1] * a[2], a[2] * b[2])
RMul(a, b) == Rat(a[1] * b[1], a[2] * b[2])
RLess(a, b) == a[1] * b[2] < b[1] * a[2]

-----------------------------------------------------------------------------
(* The Map of keyframes: entries [key, kf] in insertion order, where kf is  *)
(* the keyframe object [timestamp, selection].                              *)

Keys(m) == {m[i].key : i \in 1..Len(m)}
KeySeq(m) == [i \in 1..Len(m) |-> m[i].key]
MapHas(m, k) == k \in Keys(m)
MapGet(m, k) == (CHOOSE i \in 1..Len(m) : m[i].key = k)
MapValue(m, k) == m[MapGet(m, k)].kf

\* Map.prototype.set: an existing key keeps its place, a new key goes last.
MapSet(m, k, v) ==
    IF MapHas(m, k)
    THEN [m EXCEPT ![MapGet(m, k)] = [key |-> k, kf |-> v]]
    ELSE Append(m, [key |-> k, kf |-> v])

\* Map.prototype.delete
MapDelete(m, k) ==
    SelectSeq(m, LAMBDA e : e.key # k)

\* Array.prototype.sort((a, b) => a - b) on numbers: ascending.
RECURSIVE InsertNumber(_, _)
InsertNumber(s, n) ==
    IF s = <<>> THEN <<n>>
    ELSE IF n < Head(s) THEN <<n>> \o s
    ELSE <<Head(s)>> \o InsertNumber(Tail(s), n)

\* The keys as the Map iterates them, not sorted.
SortNumbers_Unsorted(s) == s

RECURSIVE SortNumbers(_)
SortNumbers(s) ==
    IF s = <<>> THEN <<>>
    ELSE InsertNumber(SortNumbers(SubSeq(s, 1, Len(s) - 1)), s[Len(s)])

\* Array.prototype.sort((a, b) => a.timestamp - b.timestamp) on keyframe objects
\* (a stable sort: equal timestamps keep their order). The array holds the stored
\* objects themselves, here the Map entries they belong to.
RECURSIVE InsertKeyframe(_, _)
InsertKeyframe(s, e) ==
    IF s = <<>> THEN <<e>>
    ELSE IF e.kf.timestamp < Head(s).kf.timestamp THEN <<e>> \o s
    ELSE <<Head(s)>> \o InsertKeyframe(Tail(s), e)

RECURSIVE SortKeyframes(_)
SortKeyframes(s) ==
    IF s = <<>> THEN <<>>
    ELSE InsertKeyframe(SortKeyframes(SubSeq(s, 1, Len(s) - 1)), s[Len(s)])

-----------------------------------------------------------------------------
(* Events, results, session history *)

Event(type, data) == [type |-> type, data |-> data]
NoData == [none |-> TRUE]
NoResult == [op |-> "none"]
NoSession == [active |-> FALSE]
NewSession ==
    [active |-> TRUE, calls |-> 0, inBounds |-> FALSE, lastStored |-> 0,
     prev |-> 0, close |-> TRUE]

\* The observation left by an operation that returns nothing.
Returned(op, events) ==
    /\ lastOp' = op
    /\ emitted' = events
    /\ thrown' = "none"
    /\ result' = NoResult
    /\ imported' = NoData

\* The observation left by importKeyframes, which returns nothing.
ReturnedFromImport(keyframesData, events) ==
    /\ lastOp' = "importKeyframes"
    /\ emitted' = events
    /\ thrown' = "none"
    /\ result' = NoResult
    /\ imported' = keyframesData

\* The observation left by a read operation, which dispatches no event.
ReturnedValue(op, value) ==
    /\ lastOp' = op
    /\ emitted' = <<>>
    /\ thrown' = "none"
    /\ result' = value
    /\ imported' = NoData

-----------------------------------------------------------------------------
(* FrameRecorder: recording *)

minInterval == KEYFRAME_INTERVAL

\* startRecording without this.keyframes.clear().
startRecording_KeepsTrack(duration) ==
    /\ IF isRecording
       THEN /\ UNCHANGED <<isRecording, videoDuration, keyframes, lastKeyframeTime, session>>
            /\ Returned("startRecording", <<>>)
       ELSE /\ isRecording' = TRUE
            /\ videoDuration' = duration
            /\ keyframes' = keyframes
            /\ lastKeyframeTime' = 0
            /\ session' = NewSession
            /\ Returned("startRecording", <<Event("started", NoData)>>)

\* startRecording without its if (this.isRecording) return.
startRecording_Restarts(duration) ==
    /\ isRecording' = TRUE
    /\ videoDuration' = duration
    /\ keyframes' = <<>>
    /\ lastKeyframeTime' = 0
    /\ session' = NewSession
    /\ Returned("startRecording", <<Event("started", NoData)>>)

startRecording(duration) ==
    /\ IF isRecording
       THEN /\ UNCHANGED <<isRecording, videoDuration, keyframes, lastKeyframeTime, session>>
            /\ Returned("startRecording", <<>>)
       ELSE /\ isRecording' = TRUE
            /\ videoDuration' = duration
            /\ keyframes' = <<>>
            /\ lastKeyframeTime' = 0
            /\ session' = NewSession
            /\ Returned("startRecording", <<Event("started", NoData)>>)

\* stopRecording reporting the keyframes of the interval timer's last tick only.
stopRecording_CountsLast ==
    /\ IF ~isRecording
       THEN /\ UNCHANGED <<isRecording, session>>
            /\ Returned("stopRecording", <<>>)
       ELSE /\ isRecording' = FALSE
            /\ session' = NoSession
            /\ Returned("stopRecording",
                        <<Event("stopped", [totalKeyframes |-> IF keyframes = <<>> THEN 0 ELSE 1,
                                            duration |-> videoDuration])>>)
    /\ UNCHANGED <<keyframes, videoDuration, lastKeyframeTime>>

stopRecording ==
    /\ IF ~isRecording
       THEN /\ UNCHANGED <<isRecording, session>>
            /\ Returned("stopRecording", <<>>)
       ELSE /\ isRecording' = FALSE
            /\ session' = NoSession
            /\ Returned("stopRecording",
                        <<Event("stopped", [totalKeyframes |-> Len(keyframes),
                                            duration |-> videoDuration])>>)
    /\ UNCHANGED <<keyframes, videoDuration, lastKeyframeTime>>

\* The record() call as the session history sees it.
SessionAfterCall(timestamp, stored) ==
    IF ~session.active THEN session
    ELSE [active |-> TRUE,
          calls |-> IF session.calls < MaxCalls THEN session.calls + 1 ELSE MaxCalls,
          inBounds |-> session.inBounds \/ (timestamp >= 0 /\ timestamp <= videoDuration),
          lastStored |-> IF stored THEN timestamp ELSE session.lastStored,
          prev |-> timestamp,
          close |-> /\ session.close
                    /\ session.calls > 0 => Abs(timestamp - session.prev) < minInterval]

\* The spacing test with <= for <.
KeyframeSkipped_AtInterval(timestamp) ==
    \/ ~isRecording
    \/ timestamp < 0 \/ timestamp > videoDuration
    \/ /\ timestamp - lastKeyframeTime <= minInterval
       /\ MapHas(keyframes, lastKeyframeTime)

\* The spacing test without this.keyframes.has(this.lastKeyframeTime).
KeyframeSkipped_NoHas(timestamp) ==
    \/ ~isRecording
    \/ timestamp < 0 \/ timestamp > videoDuration
    \/ timestamp - lastKeyframeTime < minInterval

\* The tests without if (timestamp < 0 || timestamp > this.videoDuration) return.
KeyframeSkipped_NoBounds(timestamp) ==
    \/ ~isRecording
    \/ /\ timestamp - lastKeyframeTime < minInterval
       /\ MapHas(keyframes, lastKeyframeTime)

KeyframeSkipped(timestamp) ==
    \/ ~isRecording
    \/ timestamp < 0 \/ timestamp > videoDuration
    \/ /\ timestamp - lastKeyframeTime < minInterval
       /\ MapHas(keyframes, lastKeyframeTime)

recordKeyframe(timestamp, selectionData) ==
    /\ IF KeyframeSkipped(timestamp)
       THEN /\ UNCHANGED <<keyframes, lastKeyframeTime>>
            /\ session' = SessionAfterCall(timestamp, FALSE)
            /\ Returned("recordKeyframe", <<>>)
       ELSE LET keyframe == [timestamp |-> timestamp, selection |-> selectionData] IN
            /\ MapHas(keyframes, timestamp) \/ Len(keyframes) < MaxKeyframes
            /\ keyframes' = MapSet(keyframes, timestamp, keyframe)
            /\ lastKeyframeTime' = timestamp
            /\ session' = SessionAfterCall(timestamp, TRUE)
            /\ Returned("recordKeyframe", <<Event("keyframe", keyframe)>>)
    /\ UNCHANGED <<isRecording, videoDuration>>

-----------------------------------------------------------------------------
(* FrameRecorder: editing the track *)

deleteKeyframe(timestamp) ==
    /\ IF MapHas(keyframes, timestamp)
       THEN /\ keyframes' = MapDelete(keyframes, timestamp)
            /\ Returned("deleteKeyframe",
                        <<Event("keyframeDeleted", [timestamp |-> timestamp])>>)
       ELSE /\ UNCHANGED keyframes
            /\ Returned("deleteKeyframe", <<>>)
    /\ session' = NoSession
    /\ UNCHANGED <<isRecording, videoDuration, lastKeyframeTime>>

clearKeyframes ==
    /\ keyframes' = <<>>
    /\ Returned("clearKeyframes", <<Event("keyframesCleared", NoData)>>)
    /\ session' = NoSession
    /\ UNCHANGED <<isRecording, videoDuration, lastKeyframeTime>>

\* keyframesData.keyframes.forEach(keyframe => this.keyframes.set(keyframe.timestamp, keyframe))
RECURSIVE SetAll(_, _)
SetAll(m, list) ==
    IF list = <<>> THEN m
    ELSE SetAll(MapSet(m, Head(list).timestamp, Head(list)), Tail(list))

\* importKeyframes without its this.clearKeyframes().
importKeyframes_NoClear(keyframesData) ==
    /\ keyframes' = IF keyframesData.hasKeyframes
                    THEN SetAll(keyframes, keyframesData.keyframes)
                    ELSE keyframes
    /\ ReturnedFromImport(keyframesData,
                <<Event("keyframesImported",
                        [importedCount |-> IF keyframesData.hasKeyframes
                                           THEN Len(keyframesData.keyframes) ELSE 0])>>)
    /\ session' = NoSession
    /\ UNCHANGED <<isRecording, videoDuration, lastKeyframeTime>>

\* keyframesData is [hasKeyframes, keyframes]: hasKeyframes is whether the
\* keyframes field is there at all.
importKeyframes(keyframesData) ==
    /\ keyframes' = IF keyframesData.hasKeyframes
                    THEN SetAll(<<>>, keyframesData.keyframes)
                    ELSE <<>>
    /\ ReturnedFromImport(keyframesData,
                <<Event("keyframesCleared", NoData),
                  Event("keyframesImported",
                        [importedCount |-> IF keyframesData.hasKeyframes
                                           THEN Len(keyframesData.keyframes) ELSE 0])>>)
    /\ session' = NoSession
    /\ UNCHANGED <<isRecording, videoDuration, lastKeyframeTime>>

\* cleanup(): stopRecording(), then clearKeyframes().
cleanup ==
    /\ isRecording' = FALSE
    /\ keyframes' = <<>>
    /\ Returned("cleanup",
                (IF isRecording
                 THEN <<Event("stopped", [totalKeyframes |-> Len(keyframes),
                                          duration |-> videoDuration])>>
                 ELSE <<>>) \o <<Event("keyframesCleared", NoData)>>)
    /\ session' = NoSession
    /\ UNCHANGED <<videoDuration, lastKeyframeTime>>

-----------------------------------------------------------------------------
(* FrameRecorder: reading the track *)

\* start + end * progress, for start + (end - start) * progress.
lerp_NoDifference(start, end, progress) ==
    RAdd(IntRat(start), RMul(IntRat(end), progress))

lerp(start, end, progress) ==
    RAdd(IntRat(start), RMul(IntRat(end - start), progress))

easeInOut(t) ==
    IF RLess(t, Rat(1, 2))
    THEN RMul(IntRat(2), RMul(t, t))
    ELSE RAdd(IntRat(-1), RMul(RSub(IntRat(4), RMul(IntRat(2), t)), t))

\* SMOOTHING is this.constants.RECORDING?.SMOOTHING, read from the shared
\* configuration object at each call.
interpolateSelection(selection1, selection2, time1, time2, currentTime, SMOOTHING) ==
    LET progress == Rat(currentTime - time1, time2 - time1)
        easedProgress == IF SMOOTHING THEN easeInOut(progress) ELSE progress
    IN  [x |-> lerp(selection1.x, selection2.x, easedProgress),
         y |-> lerp(selection1.y, selection2.y, easedProgress),
         width |-> lerp(selection1.width, selection2.width, easedProgress),
         height |-> lerp(selection1.height, selection2.height, easedProgress),
         zoom |-> lerp(selection1.zoom, selection2.zoom, easedProgress)]

\* The scan without its break and its afterIndex === -1 test: afterIndex ends as
\* the last index at or after the timestamp.
FindSurrounding_NoBreak(timestamps, timestamp, i, beforeIndex) ==
    LET atOrBefore == {j \in 1..Len(timestamps) : timestamps[j] <= timestamp}
        atOrAfter == {j \in 1..Len(timestamps) : timestamps[j] >= timestamp}
        Last(S) == IF S = {} THEN 0 ELSE CHOOSE j \in S : \A k \in S : k <= j
    IN  <<Last(atOrBefore), Last(atOrAfter)>>

\* The scan of the sorted timestamps from index i on: <<beforeIndex, afterIndex>>,
\* indices from 1, 0 standing for the code's -1.
RECURSIVE FindSurrounding(_, _, _, _)
FindSurrounding(timestamps, timestamp, i, beforeIndex) ==
    IF i > Len(timestamps) THEN <<beforeIndex, 0>>
    ELSE LET before == IF timestamps[i] <= timestamp THEN i ELSE beforeIndex IN
         IF timestamps[i] >= timestamp
         THEN <<before, i>>
         ELSE FindSurrounding(timestamps, timestamp, i + 1, before)

\* A returned selection is either the stored object itself (kind "stored", of the
\* keyframe under `key`) or a new object (kind "fresh").
StoredSelection(key) ==
    [kind |-> "stored", key |-> key, sel |-> MapValue(keyframes, key).selection]

getInterpolatedSelection(timestamp, SMOOTHING) ==
    IF Len(keyframes) = 0 THEN [kind |-> "null"]
    ELSE LET timestamps == SortNumbers(KeySeq(keyframes))
             found == FindSurrounding(timestamps, timestamp, 1, 0)
             beforeIndex == found[1]
             afterIndex == found[2]
         IN  IF beforeIndex = afterIndex /\ beforeIndex # 0
                 THEN StoredSelection(timestamps[beforeIndex])
             ELSE IF beforeIndex = 0 /\ afterIndex = 0 THEN [kind |-> "null"]
             ELSE IF beforeIndex = 0 THEN StoredSelection(timestamps[afterIndex])
             ELSE IF afterIndex = 0 THEN StoredSelection(timestamps[beforeIndex])
             ELSE [kind |-> "fresh",
                   sel |-> interpolateSelection(
                               MapValue(keyframes, timestamps[beforeIndex]).selection,
                               MapValue(keyframes, timestamps[afterIndex]).selection,
                               timestamps[beforeIndex],
                               timestamps[afterIndex],
                               timestamp,
                               SMOOTHING)]

\* The returned keyframes are the stored objects: `refs` names, for each, the Map
\* key it is stored under.
exportKeyframes(startTime, endTime) ==
    LET filteredKeyframes ==
            SortKeyframes(SelectSeq(keyframes,
                LAMBDA e : e.key >= startTime /\ e.key <= endTime))
    IN  [keyframes |-> [i \in 1..Len(filteredKeyframes) |-> filteredKeyframes[i].kf],
         refs |-> [i \in 1..Len(filteredKeyframes) |-> filteredKeyframes[i].key],
         startTime |-> startTime,
         endTime |-> endTime,
         duration |-> endTime - startTime,
         totalKeyframes |-> Len(filteredKeyframes)]

getKeyframeTimestamps == SortNumbers(KeySeq(keyframes))

Read(op, args, value) ==
    /\ ReturnedValue(op, [op |-> op, args |-> args, value |-> value])
    /\ UNCHANGED <<isRecording, keyframes, videoDuration, lastKeyframeTime, session>>

Interpolate(timestamp, SMOOTHING) ==
    Read("getInterpolatedSelection", [timestamp |-> timestamp, SMOOTHING |-> SMOOTHING],
         getInterpolatedSelection(timestamp, SMOOTHING))

Export(startTime, endTime) ==
    Read("exportKeyframes", [startTime |-> startTime, endTime |-> endTime],
         exportKeyframes(startTime, endTime))

\* exportKeyframes() with its default arguments
ExportDefault ==
    Read("exportKeyframes", [startTime |-> 0, endTime |-> videoDuration],
         exportKeyframes(0, videoDuration))

Timestamps ==
    Read("getKeyframeTimestamps", NoData, getKeyframeTimestamps)

\* value || null: undefined and 0 are falsy.
OrNull(defined, value) ==
    IF defined /\ value # 0 THEN [null |-> FALSE, value |-> value] ELSE [null |-> TRUE]

getAverageKeyframeInterval ==
    LET timestamps == getKeyframeTimestamps
    IN  IF Len(timestamps) < 2 THEN IntRat(0)
        ELSE Rat(timestamps[Len(timestamps)] - timestamps[1], Len(timestamps) - 1)

\* getRecordingStats() without its currentTime field.
getRecordingStats ==
    LET timestamps == getKeyframeTimestamps
        some == timestamps # <<>>
    IN  [isRecording |-> isRecording,
         totalKeyframes |-> Len(keyframes),
         videoDuration |-> videoDuration,
         firstKeyframe |-> OrNull(some, IF some THEN timestamps[1] ELSE 0),
         lastKeyframe |-> OrNull(some, IF some THEN timestamps[Len(timestamps)] ELSE 0),
         averageInterval |-> getAverageKeyframeInterval]

Stats ==
    Read("getRecordingStats", NoData, getRecordingStats)

-----------------------------------------------------------------------------
(* The recorder and its callers *)

Keyframes == [timestamp : Times, selection : Selections]

\* The keyframesData objects that list up to `most` keyframes, and the one with
\* no keyframes field.
KeyframesData(most) ==
    {[hasKeyframes |-> FALSE, keyframes |-> <<>>]} \cup
    {[hasKeyframes |-> TRUE, keyframes |-> list] :
        list \in UNION {[1..n -> Keyframes] : n \in 0..most}}

ImportData == KeyframesData(MaxImport)

\* The ranges the export is asked for: every window of ExportWindow time steps.
ExportRanges == {<<t, t + ExportWindow * TimeStep>> : t \in Times}

NoHandler == [handler |-> "constructor", thrown |-> "none", alert |-> "none"]

\* this.selectionController = null
NoController == [source |-> "none"]
NotNotified == [called |-> FALSE]
NoPointer == [handler |-> "constructor", x |-> 0, y |-> 0, notified |-> NotNotified]
NoAnchor == [x |-> <<0, 1>>, y |-> <<0, 1>>]
\* A canvas element before setupCanvas, a video element before its metadata.
NoCanvas == [width |-> 300, height |-> 150, setup |-> "none"]
NoVideo == [videoWidth |-> 0, videoHeight |-> 0]
NotMapped == [drawn |-> FALSE]

\* new VideoEditor(videoElement, videoSrc)
EditorConstructed ==
    /\ isInitialized = FALSE
    /\ isLoaded = FALSE
    /\ editorDuration = 0
    /\ trimStart = 0
    /\ trimEnd = 0
    /\ activeTrimHandle = "none"
    /\ isPlaying = FALSE
    /\ editorTime = 0
    /\ currentMode = "preview"
    /\ videoBlob = FALSE
    /\ pendingLoad = "none"
    /\ handled = NoHandler
    /\ trimHistory = [initialised |-> FALSE, adjusted |-> FALSE]
    /\ controller = NoController
    /\ pointed = NoPointer
    /\ anchor = NoAnchor
    /\ gestures = [moves |-> 0, wheels |-> 0]
    /\ landscapeCanvas = NoCanvas
    /\ sourceVideo = NoVideo
    /\ mapped = NotMapped

\* new FrameRecorder()
Init ==
    /\ EditorConstructed
    /\ isRecording = FALSE
    /\ keyframes = <<>>
    /\ videoDuration = 0
    /\ lastKeyframeTime = 0
    /\ lastOp = "constructor"
    /\ emitted = <<>>
    /\ thrown = "none"
    /\ result = NoResult
    /\ imported = NoData
    /\ session = NoSession

\* The recorder on its own: the editor stays as constructed.
Next ==
    \/ \E duration \in Durations : startRecording(duration) /\ UNCHANGED <<editorVars, controllerVars, canvasVars>>
    \/ stopRecording /\ UNCHANGED <<editorVars, controllerVars, canvasVars>>
    \/ \E timestamp \in Times, selectionData \in Selections :
           recordKeyframe(timestamp, selectionData) /\ UNCHANGED <<editorVars, controllerVars, canvasVars>>
    \/ \E timestamp \in Times : deleteKeyframe(timestamp) /\ UNCHANGED <<editorVars, controllerVars, canvasVars>>
    \/ clearKeyframes /\ UNCHANGED <<editorVars, controllerVars, canvasVars>>
    \/ \E keyframesData \in ImportData :
           importKeyframes(keyframesData) /\ UNCHANGED <<editorVars, controllerVars, canvasVars>>
    \/ cleanup /\ UNCHANGED <<editorVars, controllerVars, canvasVars>>

Spec == Init /\ [][Next]_vars

\* The read operations, applied to every track an import of up to MaxTrack
\* keyframes can build: the recorder after new FrameRecorder(),
\* startRecording(videoDuration) or not, and importKeyframes(keyframesData).
InitRead ==
    /\ EditorConstructed
    /\ \E duration \in Durations \cup {0} :
          /\ videoDuration = duration
          /\ isRecording = (duration # 0)
    /\ \E keyframesData \in KeyframesData(MaxTrack) :
          /\ keyframes = IF keyframesData.hasKeyframes
                         THEN SetAll(<<>>, keyframesData.keyframes)
                         ELSE <<>>
          /\ emitted = <<Event("keyframesCleared", NoData),
                         Event("keyframesImported",
                               [importedCount |-> Len(keyframesData.keyframes)])>>
          /\ imported = keyframesData
    /\ lastKeyframeTime = 0
    /\ lastOp = "importKeyframes"
    /\ thrown = "none"
    /\ result = NoResult
    /\ session = NoSession

NextRead ==
    \/ \E timestamp \in Times, SMOOTHING \in BOOLEAN :
           Interpolate(timestamp, SMOOTHING) /\ UNCHANGED <<editorVars, controllerVars, canvasVars>>
    \/ \E range \in ExportRanges : Export(range[1], range[2]) /\ UNCHANGED <<editorVars, controllerVars, canvasVars>>
    \/ ExportDefault /\ UNCHANGED <<editorVars, controllerVars, canvasVars>>
    \/ Timestamps /\ UNCHANGED <<editorVars, controllerVars, canvasVars>>
    \/ Stats /\ UNCHANGED <<editorVars, controllerVars, canvasVars>>

SpecRead == InitRead /\ [][NextRead]_vars

\* The keyframesData objects a track is replaced with: lists of up to MaxTrack
\* keyframes at two timestamps, repeated or not, and the object with no
\* keyframes field.
ReplacementData ==
    {[hasKeyframes |-> FALSE, keyframes |-> <<>>]} \cup
    {[hasKeyframes |-> TRUE, keyframes |-> list] :
        list \in UNION {[1..n -> [timestamp : {0, TimeStep}, selection : Selections]] :
                            n \in 0..MaxTrack}}

\* importKeyframes applied to every track an import can build.
NextImport ==
    \E keyframesData \in ReplacementData :
        importKeyframes(keyframesData) /\ UNCHANGED <<editorVars, controllerVars, canvasVars>>

SpecImport == InitRead /\ [][NextImport]_vars

-----------------------------------------------------------------------------
(* The caller writing to the objects it shares with the recorder.  A write  *)
(* sets the selection fields of an object the caller holds from the last    *)
(* call: the selection it got from getInterpolatedSelection, a keyframe of  *)
(* the array it got from exportKeyframes, a keyframe of the array it gave   *)
(* to importKeyframes, the selectionData it gave to recordKeyframe.         *)

WriteSelection(m, k, selection) ==
    [m EXCEPT ![MapGet(m, k)].kf.selection = selection]

CallerWrote ==
    /\ lastOp' = "callerWrite"
    /\ emitted' = <<>>
    /\ thrown' = "none"
    /\ result' = NoResult
    /\ imported' = NoData
    /\ UNCHANGED <<isRecording, videoDuration, lastKeyframeTime, session>>
    /\ UNCHANGED <<editorVars, controllerVars, canvasVars>>

\* line 143, 151, 156: return this.keyframes.get(...).selection, the stored object;
\* line 182: interpolateSelection returns a new object.
CallerWritesInterpolated(selection) ==
    /\ lastOp = "getInterpolatedSelection"
    /\ result.value.kind # "null"
    /\ keyframes' = IF result.value.kind = "stored"
                    THEN WriteSelection(keyframes, result.value.key, selection)
                    ELSE keyframes
    /\ CallerWrote

\* line 241: filteredKeyframes.push(keyframe), the stored object.
CallerWritesExported(i, selection) ==
    /\ lastOp = "exportKeyframes"
    /\ i \in 1..Len(result.value.refs)
    /\ keyframes' = WriteSelection(keyframes, result.value.refs[i], selection)
    /\ CallerWrote

\* line 267: this.keyframes.set(keyframe.timestamp, keyframe), the caller's object.
CallerWritesImported(timestamp, selection) ==
    /\ lastOp = "importKeyframes"
    /\ MapHas(keyframes, timestamp)
    /\ keyframes' = WriteSelection(keyframes, timestamp, selection)
    /\ CallerWrote

\* line 84: selection: { ...selectionData }, a copy.
CallerWritesRecorded(selection) ==
    /\ lastOp = "recordKeyframe"
    /\ keyframes' = keyframes
    /\ CallerWrote

NextAlias ==
    \/ Next
    \/ NextRead
    \/ \E selection \in Selections : CallerWritesInterpolated(selection)
    \/ \E i \in 1..MaxKeyframes, selection \in Selections : CallerWritesExported(i, selection)
    \/ \E timestamp \in Times, selection \in Selections :
           CallerWritesImported(timestamp, selection)
    \/ \E selection \in Selections : CallerWritesRecorded(selection)

SpecAlias == Init /\ [][NextAlias]_vars

-----------------------------------------------------------------------------
(* VideoEditor: the handlers attachEventListeners registers, each one a     *)
(* whole run of its handler.  The media element is the environment: it      *)
(* reports metadata (loadedmetadata), the playback position (timeupdate)    *)
(* and the end of the video (ended).  Of initialize() the try path is       *)
(* modelled (setupVideo resolving); its catch path is not.                  *)

NoRender == [invoked |-> FALSE]

\* How a handler ended: what it threw to the event loop, what it told the user
\* (alert), the call it made to renderer.render.
Outcome(handler, threw, alert, render) ==
    handled' = [handler |-> handler, thrown |-> threw, alert |-> alert, render |-> render]

Clamp(low, high, value) ==
    IF value < low THEN low ELSE IF value > high THEN high ELSE value

\* updateModeDisplay() builds modeNames and calls this.updateModeDisplay(): the
\* call never returns, the stack overflows and a RangeError is thrown.
updateModeDisplay == "RangeError"

\* updateRecordingState() updates the DOM and ends with this.updateModeDisplay().
updateRecordingState == updateModeDisplay

\* initialize(): setupVideo resolves on loadedmetadata (this.duration is set),
\* on error or after the 30 s timeout (no metadata yet); then the interface is
\* built, the modules created, the listeners attached and renderer.load() tried.
initialize(setup, metadataDuration, loaded) ==
    /\ ~isInitialized
    /\ editorDuration' = IF setup = "loadedmetadata" THEN metadataDuration ELSE editorDuration
    /\ pendingLoad' = IF setup = "timeout" THEN "initial" ELSE "none"
    /\ isLoaded' = loaded
    /\ isInitialized' = TRUE
    /\ Outcome("initialize", "none", IF loaded THEN "none" ELSE "RenderLibrary", NoRender)
    /\ UNCHANGED <<trimStart, trimEnd, activeTrimHandle, isPlaying, editorTime, currentMode,
                   videoBlob, trimHistory>>
    /\ UNCHANGED recorderVars

\* handleVideoLoadedMetadata()
handleVideoLoadedMetadata(metadataDuration) ==
    /\ editorDuration' = metadataDuration
    /\ trimStart' = 0
    /\ trimEnd' = metadataDuration
    /\ trimHistory' = [initialised |-> TRUE, adjusted |-> FALSE]

\* loadVideoFromBlob's onLoadedMetadata without this.frameRecorder.stopRecording().
onLoadedMetadata_KeepsRecording ==
    /\ keyframes' = <<>>
    /\ Returned("clearKeyframes", <<Event("keyframesCleared", NoData)>>)
    /\ session' = NoSession
    /\ UNCHANGED <<isRecording, videoDuration, lastKeyframeTime>>

\* loadVideoFromBlob's onLoadedMetadata: this.duration, then
\* frameRecorder.clearKeyframes() and frameRecorder.stopRecording().
onLoadedMetadata ==
    /\ keyframes' = <<>>
    /\ isRecording' = FALSE
    /\ Returned("stopRecording",
                <<Event("keyframesCleared", NoData)>> \o
                (IF isRecording
                 THEN <<Event("stopped", [totalKeyframes |-> 0, duration |-> videoDuration])>>
                 ELSE <<>>))
    /\ session' = NoSession
    /\ UNCHANGED <<videoDuration, lastKeyframeTime>>

\* The loadedmetadata event of the initial source, arriving after initialize()
\* gave up waiting for it: handleVideoLoadedMetadata alone listens.
MetadataOfInitial(metadataDuration) ==
    /\ isInitialized
    /\ pendingLoad = "initial"
    /\ handleVideoLoadedMetadata(metadataDuration)
    /\ pendingLoad' = "none"
    /\ Outcome("handleVideoLoadedMetadata", "none", "none", NoRender)
    /\ UNCHANGED <<isInitialized, isLoaded, activeTrimHandle, isPlaying, editorTime,
                   currentMode, videoBlob>>
    /\ UNCHANGED recorderVars

\* loadVideoFile(file) up to the await in loadVideoFromBlob: the source is
\* replaced and its metadata awaited.
loadVideoFromBlob ==
    /\ isInitialized
    /\ videoBlob' = TRUE
    /\ pendingLoad' = "upload"
    /\ Outcome("loadVideoFromBlob", "none", "none", NoRender)
    /\ UNCHANGED <<isInitialized, isLoaded, editorDuration, trimStart, trimEnd,
                   activeTrimHandle, isPlaying, editorTime, currentMode, trimHistory>>
    /\ UNCHANGED recorderVars

\* The loadedmetadata event of an uploaded file: handleVideoLoadedMetadata, then
\* loadVideoFromBlob's onLoadedMetadata, in the order they were attached.
MetadataOfUpload(metadataDuration) ==
    /\ isInitialized
    /\ pendingLoad = "upload"
    /\ handleVideoLoadedMetadata(metadataDuration)
    /\ onLoadedMetadata
    /\ pendingLoad' = "none"
    /\ Outcome("onLoadedMetadata", "none", "none", NoRender)
    /\ UNCHANGED <<isInitialized, isLoaded, activeTrimHandle, isPlaying, editorTime,
                   currentMode, videoBlob>>

\* The error event of the source being loaded.
LoadError ==
    /\ isInitialized
    /\ pendingLoad # "none"
    /\ pendingLoad' = "none"
    /\ Outcome("onError", "none",
               IF pendingLoad = "upload" THEN "LoadFailed" ELSE "none", NoRender)
    /\ UNCHANGED <<isInitialized, isLoaded, editorDuration, trimStart, trimEnd,
                   activeTrimHandle, isPlaying, editorTime, currentMode, videoBlob,
                   trimHistory>>
    /\ UNCHANGED recorderVars

handleTrimMouseDown(handle) ==
    /\ isInitialized
    /\ activeTrimHandle' = handle
    /\ Outcome("handleTrimMouseDown", "none", "none", NoRender)
    /\ UNCHANGED <<isInitialized, isLoaded, editorDuration, trimStart, trimEnd, isPlaying,
                   editorTime, currentMode, videoBlob, pendingLoad, trimHistory>>
    /\ UNCHANGED recorderVars

\* The trim range after a move of the active handle to newTime.
TrimAfterMove_StartUnchecked(newTime) ==
    IF activeTrimHandle = "start"
    THEN <<newTime, trimEnd>>
    ELSE IF activeTrimHandle = "end" /\ newTime > trimStart
    THEN <<trimStart, newTime>>
    ELSE <<trimStart, trimEnd>>

TrimAfterMove(newTime) ==
    IF activeTrimHandle = "start" /\ newTime < trimEnd
    THEN <<newTime, trimEnd>>
    ELSE IF activeTrimHandle = "end" /\ newTime > trimStart
    THEN <<trimStart, newTime>>
    ELSE <<trimStart, trimEnd>>

\* handleTrimMouseMove(event): requested is progress * this.duration, the time
\* under the pointer; the listener exists between mousedown and mouseup.
handleTrimMouseMove(requested) ==
    /\ isInitialized
    /\ activeTrimHandle # "none"
    /\ LET newTime == Clamp(0, editorDuration, requested)
           range == TrimAfterMove(newTime)
       IN  /\ trimStart' = range[1]
           /\ trimEnd' = range[2]
           /\ trimHistory' = [trimHistory EXCEPT
                                !.adjusted = @ \/ range # <<trimStart, trimEnd>>]
    /\ Outcome("handleTrimMouseMove", "none", "none", NoRender)
    /\ UNCHANGED <<isInitialized, isLoaded, editorDuration, activeTrimHandle, isPlaying,
                   editorTime, currentMode, videoBlob, pendingLoad>>
    /\ UNCHANGED recorderVars

handleTrimMouseUp ==
    /\ isInitialized
    /\ activeTrimHandle # "none"
    /\ activeTrimHandle' = "none"
    /\ Outcome("handleTrimMouseUp", "none", "none", NoRender)
    /\ UNCHANGED <<isInitialized, isLoaded, editorDuration, trimStart, trimEnd, isPlaying,
                   editorTime, currentMode, videoBlob, pendingLoad, trimHistory>>
    /\ UNCHANGED recorderVars

\* handleVideoTimeUpdate(): mediaTime is sourceVideo.currentTime at the event.
\* It ends with frameRecorder.updateTime(currentTime), which stores the time
\* and records nothing.
handleVideoTimeUpdate(mediaTime) ==
    /\ isInitialized
    /\ mediaTime >= 0 /\ mediaTime <= editorDuration
    /\ IF mediaTime >= trimEnd \/ mediaTime < trimStart
       THEN /\ editorTime' = trimStart
            /\ isPlaying' = FALSE
       ELSE /\ editorTime' = mediaTime
            /\ isPlaying' = isPlaying
    /\ Outcome("handleVideoTimeUpdate", "none", "none", NoRender)
    /\ UNCHANGED <<isInitialized, isLoaded, editorDuration, trimStart, trimEnd,
                   activeTrimHandle, currentMode, videoBlob, pendingLoad, trimHistory>>
    /\ UNCHANGED recorderVars

\* handleSelectionChange(selectionData), called by the SelectionController
\* when the user moves, resizes or zooms the selection.
handleSelectionChange(selectionData) ==
    /\ isInitialized
    /\ IF isRecording
       THEN recordKeyframe(editorTime, selectionData)
       ELSE UNCHANGED recorderVars
    /\ Outcome("handleSelectionChange", "none", "none", NoRender)
    /\ UNCHANGED <<isInitialized, isLoaded, editorDuration, trimStart, trimEnd,
                   activeTrimHandle, isPlaying, editorTime, currentMode, videoBlob,
                   pendingLoad, trimHistory>>

handlePlayPause ==
    /\ isInitialized
    /\ isPlaying' = ~isPlaying
    /\ Outcome("handlePlayPause", "none", "none", NoRender)
    /\ UNCHANGED <<isInitialized, isLoaded, editorDuration, trimStart, trimEnd,
                   activeTrimHandle, editorTime, currentMode, videoBlob, pendingLoad,
                   trimHistory>>
    /\ UNCHANGED recorderVars

\* handleRecord(): it ends with updateRecordingState().
handleRecord ==
    /\ isInitialized
    /\ IF isRecording
       THEN /\ stopRecording
            /\ currentMode' = "preview"
       ELSE /\ startRecording(editorDuration)
            /\ currentMode' = "record"
    /\ Outcome("handleRecord", updateRecordingState, "none", NoRender)
    /\ UNCHANGED <<isInitialized, isLoaded, editorDuration, trimStart, trimEnd,
                   activeTrimHandle, isPlaying, editorTime, videoBlob, pendingLoad,
                   trimHistory>>

\* handleStop without its frameRecorder.stopRecording().
handleStop_KeepsRecording ==
    /\ isInitialized
    /\ isPlaying' = FALSE
    /\ UNCHANGED recorderVars
    /\ Outcome("handleStop", "none", "none", NoRender)
    /\ UNCHANGED <<isInitialized, isLoaded, editorDuration, trimStart, trimEnd,
                   activeTrimHandle, editorTime, currentMode, videoBlob, pendingLoad,
                   trimHistory>>

\* handleStop(): sourceVideo.currentTime = 0 shows in this.currentTime at the
\* next timeupdate.
handleStop ==
    /\ isInitialized
    /\ isPlaying' = FALSE
    /\ IF isRecording
       THEN /\ stopRecording
            /\ Outcome("handleStop", updateRecordingState, "none", NoRender)
       ELSE /\ UNCHANGED recorderVars
            /\ Outcome("handleStop", "none", "none", NoRender)
    /\ UNCHANGED <<isInitialized, isLoaded, editorDuration, trimStart, trimEnd,
                   activeTrimHandle, editorTime, currentMode, videoBlob, pendingLoad,
                   trimHistory>>

\* handleVideoEnded(): the ended event of a source whose metadata was read.
handleVideoEnded ==
    /\ isInitialized
    /\ editorDuration > 0
    /\ isPlaying' = FALSE
    /\ IF isRecording
       THEN /\ stopRecording
            /\ currentMode' = "preview"
            /\ Outcome("handleVideoEnded", updateRecordingState, "none", NoRender)
       ELSE /\ UNCHANGED recorderVars
            /\ UNCHANGED currentMode
            /\ Outcome("handleVideoEnded", "none", "none", NoRender)
    /\ UNCHANGED <<isInitialized, isLoaded, editorDuration, trimStart, trimEnd,
                   activeTrimHandle, editorTime, videoBlob, pendingLoad, trimHistory>>

\* keyframes.length as render reads it: an array has a length, the object
\* exportKeyframes returns has none (undefined).
ArrayLength(value) ==
    IF value.isArray
    THEN [defined |-> TRUE, length |-> Len(value.items)]
    ELSE [defined |-> FALSE, length |-> 0]

\* relativeKeyframes: keyframes.map(kf => ({...kf, timestamp: kf.timestamp - trimStart}))
RelativeKeyframes(items, start) ==
    [i \in 1..Len(items) |-> [items[i] EXCEPT !.timestamp = @ - start]]

\* A value of a zoompan expression: a number, or a symbolic term of ffmpeg.
Number(n) == [symbol |-> "number", number |-> n]
Symbol(s) == [symbol |-> s, number |-> 0]

\* relativeKeyframes.map(kf => `if(gte(t,${kf.timestamp}),${kf.selection[field]},otherwise)`)
\* .join(':'): the if-terms in the order of the keyframes.
JoinedTerms(relativeKeyframes, field, otherwise) ==
    [i \in 1..Len(relativeKeyframes) |->
        [from |-> relativeKeyframes[i].timestamp,
         value |-> Number(relativeKeyframes[i].selection[field]),
         otherwise |-> otherwise]]

\* A zoompan expression: the joined if-terms, or the default it starts as.
Expression(relativeKeyframes, field, otherwise, default) ==
    IF relativeKeyframes = <<>>
    THEN [terms |-> <<>>, constant |-> default]
    ELSE [terms |-> JoinedTerms(relativeKeyframes, field, otherwise), constant |-> default]

\* VideoRenderer.render(videoFile, keyframes, onProgress, trimStart, trimEnd), up
\* to the filtergraph it gives to ffmpeg: the trim filter and the keyframes its
\* zoompan expressions are built from (none: the default expressions).
render(keyframesArgument, start, end) ==
    LET length == ArrayLength(keyframesArgument) IN
    IF ~isLoaded
    THEN [invoked |-> TRUE, argument |-> keyframesArgument, thrown |-> "NotLoaded"]
    ELSE IF length.defined /\ length.length = 0
    THEN [invoked |-> TRUE, argument |-> keyframesArgument, thrown |-> "NoKeyframes"]
    ELSE LET relativeKeyframes ==
                 IF length.defined /\ length.length > 0
                 THEN RelativeKeyframes(keyframesArgument.items, start)
                 ELSE <<>>
         IN  [invoked |-> TRUE, argument |-> keyframesArgument, thrown |-> "none",
              trim |-> <<start, end>>,
              relativeKeyframes |-> relativeKeyframes,
              zExpr |-> Expression(relativeKeyframes, "zoom", Number(10), Number(10)),
              xExpr |-> Expression(relativeKeyframes, "x", Symbol("iw/2"),
                                   Symbol("iw/2-(iw*1)/2")),
              yExpr |-> Expression(relativeKeyframes, "y", Symbol("ih/2"),
                                   Symbol("ih/2-(ih*1)/2"))]

\* The body of handleExport's try block after this.updateModeDisplay():
\* exportKeyframes() with its default range, the test of totalKeyframes, the
\* call of renderer.render with the object exportKeyframes returned.
ExportBody(engineRejects) ==
    LET exported == exportKeyframes(0, videoDuration) IN
    IF exported.totalKeyframes = 0
    THEN [alert |-> "NoKeyframes", render |-> NoRender]
    ELSE LET call == render([isArray |-> FALSE, object |-> exported], trimStart, trimEnd) IN
         [alert |-> IF call.thrown # "none" \/ engineRejects THEN "ExportFailed" ELSE "none",
          render |-> call]

\* handleExport(), the Export button being enabled (renderer.load() succeeded).
\* Without an uploaded file it alerts and returns.  Otherwise the try block
\* sets the mode and calls updateModeDisplay(); what that throws is caught and
\* alerted as "Export failed", and the finally block sets the mode back and
\* calls updateModeDisplay() again, outside any try.
handleExport(engineRejects) ==
    /\ isInitialized
    /\ isLoaded
    /\ IF ~videoBlob
       THEN /\ Outcome("handleExport", "none", "UploadFirst", NoRender)
            /\ UNCHANGED currentMode
       ELSE /\ currentMode' = "preview"
            /\ IF updateModeDisplay # "none"
               THEN Outcome("handleExport", updateModeDisplay, "ExportFailed", NoRender)
               ELSE LET body == ExportBody(engineRejects) IN
                    Outcome("handleExport", "none", body.alert, body.render)
    /\ UNCHANGED <<isInitialized, isLoaded, editorDuration, trimStart, trimEnd,
                   activeTrimHandle, isPlaying, editorTime, videoBlob, pendingLoad,
                   trimHistory>>
    /\ UNCHANGED recorderVars

-----------------------------------------------------------------------------
(* The editor and its user *)

TrimHandles == {"start", "end"}

\* Recording, playback and export: the user never touches the trim handles.
NextEditor ==
    \/ \E setup \in {"loadedmetadata", "error", "timeout"},
          metadataDuration \in Durations, loaded \in BOOLEAN :
           initialize(setup, metadataDuration, loaded) /\ UNCHANGED <<controllerVars, canvasVars>>
    \/ \E metadataDuration \in Durations : MetadataOfInitial(metadataDuration) /\ UNCHANGED <<controllerVars, canvasVars>>
    \/ loadVideoFromBlob /\ UNCHANGED <<controllerVars, canvasVars>>
    \/ \E metadataDuration \in Durations : MetadataOfUpload(metadataDuration) /\ UNCHANGED <<controllerVars, canvasVars>>
    \/ LoadError /\ UNCHANGED <<controllerVars, canvasVars>>
    \/ \E mediaTime \in Times : handleVideoTimeUpdate(mediaTime) /\ UNCHANGED <<controllerVars, canvasVars>>
    \/ \E selectionData \in Selections : handleSelectionChange(selectionData) /\ UNCHANGED <<controllerVars, canvasVars>>
    \/ handlePlayPause /\ UNCHANGED <<controllerVars, canvasVars>>
    \/ handleRecord /\ UNCHANGED <<controllerVars, canvasVars>>
    \/ handleStop /\ UNCHANGED <<controllerVars, canvasVars>>
    \/ handleVideoEnded /\ UNCHANGED <<controllerVars, canvasVars>>
    \/ \E engineRejects \in BOOLEAN : handleExport(engineRejects) /\ UNCHANGED <<controllerVars, canvasVars>>

SpecEditor == Init /\ [][NextEditor]_vars

\* Loading, trimming and playback: the user never records or exports.
NextTrim ==
    \/ \E setup \in {"loadedmetadata", "error", "timeout"},
          metadataDuration \in Durations, loaded \in BOOLEAN :
           initialize(setup, metadataDuration, loaded) /\ UNCHANGED <<controllerVars, canvasVars>>
    \/ \E metadataDuration \in Durations : MetadataOfInitial(metadataDuration) /\ UNCHANGED <<controllerVars, canvasVars>>
    \/ loadVideoFromBlob /\ UNCHANGED <<controllerVars, canvasVars>>
    \/ \E metadataDuration \in Durations : MetadataOfUpload(metadataDuration) /\ UNCHANGED <<controllerVars, canvasVars>>
    \/ LoadError /\ UNCHANGED <<controllerVars, canvasVars>>
    \/ \E handle \in TrimHandles : handleTrimMouseDown(handle) /\ UNCHANGED <<controllerVars, canvasVars>>
    \/ \E requested \in Times : handleTrimMouseMove(requested) /\ UNCHANGED <<controllerVars, canvasVars>>
    \/ handleTrimMouseUp /\ UNCHANGED <<controllerVars, canvasVars>>
    \/ \E mediaTime \in Times : handleVideoTimeUpdate(mediaTime) /\ UNCHANGED <<controllerVars, canvasVars>>
    \/ handlePlayPause /\ UNCHANGED <<controllerVars, canvasVars>>
    \/ handleStop /\ UNCHANGED <<controllerVars, canvasVars>>
    \/ handleVideoEnded /\ UNCHANGED <<controllerVars, canvasVars>>

SpecTrim == Init /\ [][NextTrim]_vars

-----------------------------------------------------------------------------
(* VideoRenderer on its own, one render at a time: load(), render() on an   *)
(* array of keyframes as exportKeyframes lists them (ascending, one per     *)
(* timestamp), ffmpeg evaluating the zoompan expressions of that render at  *)
(* a time t, and ffmpeg.run resolving.                                      *)
(* if(gte(t,a),v,w) is v when t >= a and w otherwise.  What ffmpeg makes of *)
(* several if-terms joined by ':' the code does not determine: it may       *)
(* reject the expression, take the first term or take the last.             *)

\* VideoRenderer.load() succeeding.
load ==
    /\ ~isLoaded
    /\ isLoaded' = TRUE
    /\ Outcome("load", "none", "none", NoRender)
    /\ UNCHANGED <<isInitialized, editorDuration, trimStart, trimEnd, activeTrimHandle,
                   isPlaying, editorTime, currentMode, videoBlob, pendingLoad, trimHistory>>
    /\ UNCHANGED recorderVars

Render(keyframesArray, start, end) ==
    /\ handled.handler \notin {"render", "zoompan"}
    /\ LET call == render([isArray |-> TRUE, items |-> keyframesArray], start, end) IN
       Outcome("render", call.thrown, "none", call)
    /\ UNCHANGED <<isInitialized, isLoaded, editorDuration, trimStart, trimEnd,
                   activeTrimHandle, isPlaying, editorTime, currentMode, videoBlob,
                   pendingLoad, trimHistory>>
    /\ UNCHANGED recorderVars

Readings == {"first", "last", "rejected"}

\* The value of one if-term at time t.
TermValue(term, t) == IF t >= term.from THEN term.value ELSE term.otherwise

\* The value ffmpeg gives to an expression at time t.
Evaluate(expression, t, reading) ==
    IF expression.terms = <<>> THEN expression.constant
    ELSE IF Len(expression.terms) = 1 THEN TermValue(expression.terms[1], t)
    ELSE IF reading = "first" THEN TermValue(expression.terms[1], t)
    ELSE IF reading = "last" THEN TermValue(expression.terms[Len(expression.terms)], t)
    ELSE Symbol("error")

\* ffmpeg evaluating the expressions of the last render for the frame at time t
\* of the trimmed video.
Zoompan(t, reading) ==
    /\ handled.handler \in {"render", "zoompan"}
    /\ handled.thrown = "none"
    /\ t >= 0 /\ t < handled.render.trim[2] - handled.render.trim[1]
    /\ handled' = [handler |-> "zoompan", thrown |-> "none", alert |-> "none",
                   render |-> handled.render,
                   frame |-> [t |-> t,
                              zoom |-> Evaluate(handled.render.zExpr, t, reading),
                              x |-> Evaluate(handled.render.xExpr, t, reading),
                              y |-> Evaluate(handled.render.yExpr, t, reading)]]
    /\ UNCHANGED <<isInitialized, isLoaded, editorDuration, trimStart, trimEnd,
                   activeTrimHandle, isPlaying, editorTime, currentMode, videoBlob,
                   pendingLoad, trimHistory>>
    /\ UNCHANGED recorderVars

\* await this.ffmpeg.run(...command) resolving; render returns the file.
Rendered ==
    /\ handled.handler \in {"render", "zoompan"}
    /\ Outcome("rendered", "none", "none", NoRender)
    /\ UNCHANGED <<isInitialized, isLoaded, editorDuration, trimStart, trimEnd,
                   activeTrimHandle, isPlaying, editorTime, currentMode, videoBlob,
                   pendingLoad, trimHistory>>
    /\ UNCHANGED recorderVars

\* The arrays exportKeyframes can list: up to MaxTrack keyframes, ascending.
ExportedArrays ==
    {list \in UNION {[1..n -> Keyframes] : n \in 0..MaxTrack} :
        \A i \in 1..(Len(list) - 1) : list[i].timestamp < list[i + 1].timestamp}

TrimRanges == {range \in Times \X Times : 0 <= range[1] /\ range[1] < range[2]}

NextRender ==
    \/ load /\ UNCHANGED <<controllerVars, canvasVars>>
    \/ \E keyframesArray \in ExportedArrays, range \in TrimRanges :
           Render(keyframesArray, range[1], range[2]) /\ UNCHANGED <<controllerVars, canvasVars>>
    \/ \E t \in Times, reading \in Readings : Zoompan(t, reading) /\ UNCHANGED <<controllerVars, canvasVars>>
    \/ Rendered /\ UNCHANGED <<controllerVars, canvasVars>>

SpecRender == Init /\ [][NextRender]_vars

-----------------------------------------------------------------------------
(* SelectionController: the selection rect the user moves on the landscape  *)
(* canvas.  Two files of the repository define the class:                   *)
(* src/src/components/editor/selectionController.js (corner handles, drag   *)
(* by increments) and src/unnamed/part_006 (9:16 rect, drag by anchor, no   *)
(* handles); the page loads one of them.  Coordinates are exact rationals   *)
(* <<numerator, denominator>> in canvas pixels, zoom is in tenths.  The     *)
(* canvas is displayed at its own size (getBoundingClientRect() has the     *)
(* width and height of the canvas) and keeps the size it had when the       *)
(* controller was constructed.  Not modelled: the drawing, the cursor, the  *)
(* touch handlers (they forward to the mouse handlers).                     *)

HANDLE_SIZE == 12
MIN_WIDTH == 50
ZOOM_SENSITIVITY == 1
MIN_ZOOM == 3
MAX_ZOOM == 30

Zero == IntRat(0)
RLeq(a, b) == a[1] * b[2] <= b[1] * a[2]
RMin(a, b) == IF RLeq(a, b) THEN a ELSE b
RMax(a, b) == IF RLeq(a, b) THEN b ELSE a
RDiv(a, b) == Rat(a[1] * b[2], a[2] * b[1])
RAbs(a) == <<Abs(a[1]), a[2]>>

Sources == {"selectionController.js", "part_006"}

\* The canvas setupCanvas gives a 10:9 video.
Canvases == {[width |-> 500, height |-> 450]}

\* Where the pointer can be pressed: near the four corners of the initial rect
\* of selectionController.js, inside it, beside it.
Pointers == {<<150, 70>>, <<350, 70>>, <<150, 380>>, <<350, 380>>, <<250, 200>>, <<50, 200>>}

\* Where the pointer can be moved to.
MovePointers == {<<50, 200>>, <<350, 380>>}

\* initializeSelection() of selectionController.js
initializeSelection(canvas) ==
    LET defaultWidth == RMul(IntRat(canvas.width), Rat(4, 10))
        defaultHeight == RMul(IntRat(canvas.height), Rat(7, 10))
    IN  [x |-> RDiv(RSub(IntRat(canvas.width), defaultWidth), IntRat(2)),
         y |-> RDiv(RSub(IntRat(canvas.height), defaultHeight), IntRat(2)),
         width |-> defaultWidth,
         height |-> defaultHeight,
         zoom |-> 10]

targetAspect == Rat(9, 16)

\* initializeSelection() of part_006
initializeSelection_part006(canvas) ==
    LET canvasHeight == IntRat(canvas.height)
        canvasWidth == IntRat(canvas.width)
        tooWide == RLess(canvasWidth, RMul(canvasHeight, targetAspect))
        selWidth == IF tooWide THEN canvasWidth ELSE RMul(canvasHeight, targetAspect)
        selHeight == IF tooWide THEN RDiv(canvasWidth, targetAspect) ELSE canvasHeight
    IN  [x |-> RDiv(RSub(canvasWidth, selWidth), IntRat(2)),
         y |-> RDiv(RSub(canvasHeight, selHeight), IntRat(2)),
         width |-> selWidth,
         height |-> selHeight,
         zoom |-> 10]

\* new SelectionController(editor, canvasElement)
SelectionController(source, canvas) ==
    [source |-> source,
     canvas |-> canvas,
     selection |-> IF source = "part_006" THEN initializeSelection_part006(canvas)
                   ELSE initializeSelection(canvas),
     isDragging |-> FALSE,
     isResizing |-> FALSE,
     dragStart |-> [x |-> Zero, y |-> Zero],
     resizeHandle |-> "null"]

\* getSelectionData() without its timestamp (Date.now())
getSelectionData(this) == this.selection

Notified(this) == [called |-> TRUE, data |-> getSelectionData(this)]

constrainToCanvas_Unclamped(this) == this

\* constrainToCanvas()
constrainToCanvas(this) ==
    LET sel == this.selection
        canvasWidth == IntRat(this.canvas.width)
        canvasHeight == IntRat(this.canvas.height)
        x == RMax(Zero, RMin(RSub(canvasWidth, sel.width), sel.x))
        y == RMax(Zero, RMin(RSub(canvasHeight, sel.height), sel.y))
    IN  [this EXCEPT !.selection =
            [sel EXCEPT !.x = x,
                        !.y = y,
                        !.width = RMin(sel.width, RSub(canvasWidth, x)),
                        !.height = RMin(sel.height, RSub(canvasHeight, y))]]

\* isInsideSelection(x, y)
isInsideSelection(this, x, y) ==
    /\ RLeq(this.selection.x, x)
    /\ RLeq(x, RAdd(this.selection.x, this.selection.width))
    /\ RLeq(this.selection.y, y)
    /\ RLeq(y, RAdd(this.selection.y, this.selection.height))

\* One entry of getResizeHandle's loop: the pointer is within handleSize of pos.
OnHandle(pos, x, y) ==
    /\ RLeq(RAbs(RSub(x, pos.x)), IntRat(HANDLE_SIZE))
    /\ RLeq(RAbs(RSub(y, pos.y)), IntRat(HANDLE_SIZE))

\* getResizeHandle(x, y): the first of nw, ne, sw, se the pointer is on.
getResizeHandle(this, x, y) ==
    LET sel == this.selection
        right == RAdd(sel.x, sel.width)
        bottom == RAdd(sel.y, sel.height)
    IN  IF OnHandle([x |-> sel.x, y |-> sel.y], x, y) THEN "nw"
        ELSE IF OnHandle([x |-> right, y |-> sel.y], x, y) THEN "ne"
        ELSE IF OnHandle([x |-> sel.x, y |-> bottom], x, y) THEN "sw"
        ELSE IF OnHandle([x |-> right, y |-> bottom], x, y) THEN "se"
        ELSE "null"

\* handleMouseDown(event) of selectionController.js
handleMouseDown(this, x, y) ==
    LET handle == getResizeHandle(this, x, y) IN
    IF handle # "null"
    THEN [this EXCEPT !.isResizing = TRUE, !.resizeHandle = handle]
    ELSE IF isInsideSelection(this, x, y)
         THEN [this EXCEPT !.isDragging = TRUE, !.dragStart = [x |-> x, y |-> y]]
         ELSE this

\* handleMouseDown(event) of part_006
handleMouseDown_part006(this, x, y) ==
    IF isInsideSelection(this, x, y)
    THEN [this EXCEPT !.isDragging = TRUE,
                      !.dragStart = [x |-> RSub(x, this.selection.x),
                                     y |-> RSub(y, this.selection.y)]]
    ELSE this

\* handleDrag(x, y)
handleDrag(this, x, y) ==
    LET sel == this.selection
        deltaX == RSub(x, this.dragStart.x)
        deltaY == RSub(y, this.dragStart.y)
        newX == RMax(Zero, RMin(RSub(IntRat(this.canvas.width), sel.width),
                                RAdd(sel.x, deltaX)))
        newY == RMax(Zero, RMin(RSub(IntRat(this.canvas.height), sel.height),
                                RAdd(sel.y, deltaY)))
    IN  [this EXCEPT !.selection = [sel EXCEPT !.x = newX, !.y = newY],
                     !.dragStart = [x |-> x, y |-> y]]

\* The switch of handleResize(x, y)
Resized(sel, resizeHandle, x, y) ==
    LET minSize == IntRat(MIN_WIDTH)
        fromLeft == RSub(RAdd(sel.x, sel.width), x)
        fromTop == RSub(RAdd(sel.y, sel.height), y)
        toRight == RMax(minSize, RSub(x, sel.x))
        toBottom == RMax(minSize, RSub(y, sel.y))
        left == IF RLeq(minSize, fromLeft)
                THEN [sel EXCEPT !.width = fromLeft, !.x = x] ELSE sel
        top == IF RLeq(minSize, fromTop)
               THEN [sel EXCEPT !.height = fromTop, !.y = y] ELSE sel
    IN  CASE resizeHandle = "se" -> [sel EXCEPT !.width = toRight, !.height = toBottom]
          [] resizeHandle = "sw" -> [left EXCEPT !.height = toBottom]
          [] resizeHandle = "ne" -> [top EXCEPT !.width = toRight]
          [] resizeHandle = "nw" ->
                [left EXCEPT !.height = top.height, !.y = top.y]
          [] OTHER -> sel

\* handleResize(x, y)
handleResize(this, x, y) ==
    constrainToCanvas(
        [this EXCEPT !.selection = Resized(this.selection, this.resizeHandle, x, y)])

\* handleMouseMove(event) of selectionController.js
handleMouseMove(this, x, y) ==
    IF this.isDragging THEN handleDrag(this, x, y)
    ELSE IF this.isResizing THEN handleResize(this, x, y)
    ELSE this

\* handleMouseMove(event) of part_006
handleMouseMove_part006(this, x, y) ==
    IF this.isDragging
    THEN constrainToCanvas(
             [this EXCEPT !.selection.x = RSub(x, this.dragStart.x),
                          !.selection.y = RSub(y, this.dragStart.y)])
    ELSE this

\* handleMouseUp() of selectionController.js
handleMouseUp(this) ==
    IF this.isDragging \/ this.isResizing
    THEN [this EXCEPT !.isDragging = FALSE, !.isResizing = FALSE, !.resizeHandle = "null"]
    ELSE this

\* handleMouseUp() of part_006
handleMouseUp_part006(this) == [this EXCEPT !.isDragging = FALSE]

\* applyZoom(newZoom) of selectionController.js
applyZoom(this, newZoom) ==
    LET sel == this.selection
        zoomRatio == Rat(newZoom, sel.zoom)
        centerX == RAdd(sel.x, RDiv(sel.width, IntRat(2)))
        centerY == RAdd(sel.y, RDiv(sel.height, IntRat(2)))
        width == RMul(sel.width, zoomRatio)
        height == RMul(sel.height, zoomRatio)
    IN  constrainToCanvas(
            [this EXCEPT !.selection =
                [x |-> RSub(centerX, RDiv(width, IntRat(2))),
                 y |-> RSub(centerY, RDiv(height, IntRat(2))),
                 width |-> width,
                 height |-> height,
                 zoom |-> newZoom]])

\* applyZoom(newZoom) of part_006
applyZoom_part006(this, newZoom) ==
    LET sel == this.selection
        canvasWidth == IntRat(this.canvas.width)
        canvasHeight == IntRat(this.canvas.height)
        centerX == RAdd(sel.x, RDiv(sel.width, IntRat(2)))
        centerY == RAdd(sel.y, RDiv(sel.height, IntRat(2)))
        zoomRatio == Rat(newZoom, sel.zoom)
        scaledWidth == RMul(sel.width, zoomRatio)
        scaledHeight == RMul(sel.height, zoomRatio)
        tooLarge == RLess(canvasWidth, scaledWidth) \/ RLess(canvasHeight, scaledHeight)
        fitsWidth == RLeq(RDiv(canvasWidth, targetAspect), canvasHeight)
        newWidth == IF ~tooLarge THEN scaledWidth
                    ELSE IF fitsWidth THEN canvasWidth
                    ELSE RMul(canvasHeight, targetAspect)
        newHeight == IF ~tooLarge THEN scaledHeight
                     ELSE IF fitsWidth THEN RDiv(canvasWidth, targetAspect)
                     ELSE canvasHeight
    IN  constrainToCanvas(
            [this EXCEPT !.selection =
                [x |-> RSub(centerX, RDiv(newWidth, IntRat(2))),
                 y |-> RSub(centerY, RDiv(newHeight, IntRat(2))),
                 width |-> newWidth,
                 height |-> newHeight,
                 zoom |-> newZoom]])

NewZoom_Unclamped(this, zoomDelta) == this.selection.zoom + zoomDelta

\* The zoom handleWheel asks for.
NewZoom(this, zoomDelta) == Clamp(MIN_ZOOM, MAX_ZOOM, this.selection.zoom + zoomDelta)

\* handleWheel(event), the same in both files
handleWheel(this, zoomDelta) ==
    IF NewZoom(this, zoomDelta) # this.selection.zoom
    THEN IF this.source = "part_006" THEN applyZoom_part006(this, NewZoom(this, zoomDelta))
         ELSE applyZoom(this, NewZoom(this, zoomDelta))
    ELSE this

\* What a handler leaves behind: the controller, the event, the notification.
Pointed(handler, x, y, after, notifies) ==
    /\ controller' = after
    /\ pointed' = [handler |-> handler, x |-> x, y |-> y,
                   notified |-> IF notifies THEN Notified(after) ELSE NotNotified]
    /\ UNCHANGED <<recorderVars, editorVars, canvasVars>>

\* A mousedown on the canvas at (x, y).
MouseDown(x, y) ==
    LET px == IntRat(x)
        py == IntRat(y)
        after == IF controller.source = "part_006"
                 THEN handleMouseDown_part006(controller, px, py)
                 ELSE handleMouseDown(controller, px, py)
        begins == /\ isInsideSelection(controller, px, py)
                  /\ \/ controller.source = "part_006"
                     \/ getResizeHandle(controller, px, py) = "null"
    IN  /\ Pointed("handleMouseDown", x, y, after, FALSE)
        /\ anchor' = IF begins
                     THEN [x |-> RSub(px, controller.selection.x),
                           y |-> RSub(py, controller.selection.y)]
                     ELSE anchor

\* A mousemove on the canvas at (x, y); pointed keeps the position of a move
\* that drags the rect.
MouseMove(x, y) ==
    LET px == IF controller.isDragging THEN x ELSE 0
        py == IF controller.isDragging THEN y ELSE 0
    IN  /\ IF controller.source = "part_006"
           THEN Pointed("handleMouseMove", px, py,
                        handleMouseMove_part006(controller, IntRat(x), IntRat(y)),
                        controller.isDragging)
           ELSE Pointed("handleMouseMove", px, py,
                        handleMouseMove(controller, IntRat(x), IntRat(y)), FALSE)
        /\ UNCHANGED anchor

\* A mouseup on the canvas; the drag it ends has no anchor any more.
MouseUp ==
    /\ IF controller.source = "part_006"
       THEN Pointed("handleMouseUp", 0, 0, handleMouseUp_part006(controller), FALSE)
       ELSE Pointed("handleMouseUp", 0, 0, handleMouseUp(controller),
                    controller.isDragging \/ controller.isResizing)
    /\ anchor' = NoAnchor

\* A wheel event: deltaY > 0 zooms out, anything else zooms in.
Wheel(zoomDelta) ==
    /\ Pointed("handleWheel", zoomDelta, 0, handleWheel(controller, zoomDelta),
               NewZoom(controller, zoomDelta) # controller.selection.zoom)
    /\ UNCHANGED anchor

\* The controller as initializeModules constructs it, in a fresh editor.
InitSelection ==
    /\ \E source \in Sources, canvas \in Canvases :
           /\ controller = SelectionController(source, canvas)
           /\ pointed = [handler |-> "constructor", x |-> 0, y |-> 0,
                         notified |-> IF source = "part_006"
                                      THEN Notified(controller) ELSE NotNotified]
    /\ anchor = NoAnchor
    /\ gestures = [moves |-> 0, wheels |-> 0]
    /\ landscapeCanvas = NoCanvas
    /\ sourceVideo = NoVideo
    /\ mapped = NotMapped
    /\ isInitialized = FALSE
    /\ isLoaded = FALSE
    /\ editorDuration = 0
    /\ trimStart = 0
    /\ trimEnd = 0
    /\ activeTrimHandle = "none"
    /\ isPlaying = FALSE
    /\ editorTime = 0
    /\ currentMode = "preview"
    /\ videoBlob = FALSE
    /\ pendingLoad = "none"
    /\ handled = NoHandler
    /\ trimHistory = [initialised |-> FALSE, adjusted |-> FALSE]
    /\ isRecording = FALSE
    /\ keyframes = <<>>
    /\ videoDuration = 0
    /\ lastKeyframeTime = 0
    /\ lastOp = "constructor"
    /\ emitted = <<>>
    /\ thrown = "none"
    /\ result = NoResult
    /\ imported = NoData
    /\ session = NoSession

\* Presses and releases, with up to MaxGestures mousemove and wheel events
\* among them.
NextSelection ==
    \/ \E p \in Pointers : MouseDown(p[1], p[2]) /\ UNCHANGED gestures
    \/ \E p \in MovePointers :
           /\ gestures.moves + gestures.wheels < MaxGestures
           /\ MouseMove(p[1], p[2])
           /\ gestures' = [gestures EXCEPT !.moves = @ + 1]
    \/ MouseUp /\ UNCHANGED gestures
    \/ \E zoomDelta \in {-ZOOM_SENSITIVITY, ZOOM_SENSITIVITY} :
           /\ gestures.moves + gestures.wheels < MaxGestures
           /\ Wheel(zoomDelta)
           /\ gestures' = [gestures EXCEPT !.wheels = @ + 1]

SpecSelection == InitSelection /\ [][NextSelection]_vars

\* Any number of wheel events on the rect as constructed.
NextZoom ==
    \/ \E zoomDelta \in {-ZOOM_SENSITIVITY, ZOOM_SENSITIVITY} :
           Wheel(zoomDelta) /\ UNCHANGED gestures

SpecZoom == InitSelection /\ [][NextZoom]_vars

-----------------------------------------------------------------------------
(* The landscape canvas: its size, the frame drawn on it and the crop the   *)
(* preview reads back from the video.                                        *)

MAX_WIDTH == 800
MAX_HEIGHT == 450

\* The videos whose metadata the element can report: 16:9, 4:3 and 9:16.
Videos ==
    {[videoWidth |-> 1920, videoHeight |-> 1080],
     [videoWidth |-> 640, videoHeight |-> 480],
     [videoWidth |-> 1080, videoHeight |-> 1920]}

\* The points of a video that are followed: two corners and the centre.
VideoPoints(video) ==
    {[x |-> IntRat(0), y |-> IntRat(0)],
     [x |-> IntRat(video.videoWidth), y |-> IntRat(video.videoHeight)],
     [x |-> Rat(video.videoWidth, 2), y |-> Rat(video.videoHeight, 2)]}

\* canvas.width = value: the attribute is an unsigned long, the fraction is dropped.
ToUnsignedLong(value) == value[1] \div value[2]

\* setupCanvasSize(): the largest MAX_WIDTH x MAX_HEIGHT box of the video's aspect.
setupCanvasSize(video) ==
    LET videoWidth == IF video.videoWidth = 0 THEN 1920 ELSE video.videoWidth
        videoHeight == IF video.videoHeight = 0 THEN 1080 ELSE video.videoHeight
        videoAspect == Rat(videoWidth, videoHeight)
        wide == RLess(Rat(MAX_WIDTH, MAX_HEIGHT), videoAspect)
        canvasWidth == IF wide THEN IntRat(MAX_WIDTH)
                       ELSE RMul(IntRat(MAX_HEIGHT), videoAspect)
        canvasHeight == IF wide THEN RDiv(IntRat(MAX_WIDTH), videoAspect)
                        ELSE IntRat(MAX_HEIGHT)
    IN  [width |-> ToUnsignedLong(canvasWidth), height |-> ToUnsignedLong(canvasHeight),
         setup |-> "sized"]

\* drawVideoFrame(): drawImage(video, 0, 0, videoWidth, videoHeight, 0, 0,
\* canvas.width, canvas.height) puts the video point p at this canvas point.
drawVideoFrame(canvas, video, p) ==
    [x |-> RMul(p.x, Rat(canvas.width, video.videoWidth)),
     y |-> RMul(p.y, Rat(canvas.height, video.videoHeight))]

\* PreviewRenderer.render(): the source rectangle computed for currentSelection.
PreviewRenderer_render(mainCanvas, video, currentSelection) ==
    LET scale == RMin(Rat(mainCanvas.width, video.videoWidth),
                      Rat(mainCanvas.height, video.videoHeight))
        renderedVideoWidth == RMul(IntRat(video.videoWidth), scale)
        renderedVideoHeight == RMul(IntRat(video.videoHeight), scale)
        offsetX == RDiv(RSub(IntRat(mainCanvas.width), renderedVideoWidth), IntRat(2))
        offsetY == RDiv(RSub(IntRat(mainCanvas.height), renderedVideoHeight), IntRat(2))
    IN  [sourceX |-> RDiv(RSub(currentSelection.x, offsetX), scale),
         sourceY |-> RDiv(RSub(currentSelection.y, offsetY), scale),
         sourceWidth |-> RDiv(currentSelection.width, scale),
         sourceHeight |-> RDiv(currentSelection.height, scale)]

\* A step that touches the canvas or the video and nothing else.
Canvased == UNCHANGED <<recorderVars, editorVars, controllerVars>>

\* setupCanvas(), called once by the interface set-up: sizes the canvas now if
\* the video has its dimensions, else at the next loadedmetadata.
setupCanvas ==
    /\ landscapeCanvas.setup = "none"
    /\ landscapeCanvas' = IF sourceVideo.videoWidth > 0
                          THEN setupCanvasSize(sourceVideo)
                          ELSE [landscapeCanvas EXCEPT !.setup = "listening"]
    /\ UNCHANGED <<sourceVideo, mapped>>
    /\ Canvased

\* sourceVideo.src = ...: the element has no dimensions until the metadata of
\* the new source is read.
SourceSet ==
    /\ sourceVideo.videoWidth > 0
    /\ sourceVideo' = NoVideo
    /\ UNCHANGED <<landscapeCanvas, mapped>>
    /\ Canvased

\* loadedmetadata: the element reports the video's size; the { once: true }
\* listener of setupCanvas, if it is still waiting, sizes the canvas.
LoadedMetadata(video) ==
    /\ sourceVideo.videoWidth = 0
    /\ sourceVideo' = video
    /\ landscapeCanvas' = IF landscapeCanvas.setup = "listening"
                          THEN setupCanvasSize(video)
                          ELSE landscapeCanvas
    /\ UNCHANGED mapped
    /\ Canvased

\* One animation frame: drawVideoFrame() draws the video, the preview renders
\* the selection whose origin is where the video point p was drawn.
DrawFrame(p) ==
    LET display == drawVideoFrame(landscapeCanvas, sourceVideo, p)
        source == PreviewRenderer_render(landscapeCanvas, sourceVideo,
                      [x |-> display.x, y |-> display.y,
                       width |-> IntRat(MIN_WIDTH), height |-> IntRat(MIN_WIDTH)])
    IN  /\ sourceVideo.videoWidth > 0
        /\ landscapeCanvas.setup = "sized"
        /\ mapped' = [drawn |-> TRUE, video |-> sourceVideo, point |-> p,
                      display |-> display,
                      back |-> [x |-> source.sourceX, y |-> source.sourceY]]
        /\ UNCHANGED <<landscapeCanvas, sourceVideo>>
        /\ Canvased

NextCanvas ==
    \/ setupCanvas
    \/ SourceSet
    \/ \E video \in Videos : LoadedMetadata(video)
    \/ \E p \in VideoPoints(sourceVideo) : DrawFrame(p)

SpecCanvas == Init /\ [][NextCanvas]_vars

-----------------------------------------------------------------------------
(* Claims *)

InBounds(timestamp) == timestamp >= 0 /\ timestamp <= videoDuration

\* C1: while recording, an in-bounds record(timestamp, selection) is dropped
\* (track and lastKeyframeTime unchanged, no event) exactly when
\* timestamp - lastKeyframeTime < minInterval (33 ms) and a keyframe exists at
\* lastKeyframeTime; otherwise the keyframe is stored at timestamp,
\* lastKeyframeTime becomes timestamp and one keyframe event is emitted.
C1_RecordSpacingPolicy ==
    [][\A timestamp \in Times, selection \in Selections :
          (isRecording /\ InBounds(timestamp) /\ recordKeyframe(timestamp, selection)) =>
              IF /\ timestamp - lastKeyframeTime < 33
                 /\ \E i \in 1..Len(keyframes) : keyframes[i].key = lastKeyframeTime
              THEN /\ keyframes' = keyframes
                   /\ lastKeyframeTime' = lastKeyframeTime
                   /\ emitted' = <<>>
              ELSE /\ \E i \in 1..Len(keyframes') :
                         /\ keyframes'[i].key = timestamp
                         /\ keyframes'[i].kf.timestamp = timestamp
                         /\ keyframes'[i].kf.selection = selection
                   /\ \A i \in 1..Len(keyframes'), j \in 1..Len(keyframes') :
                         keyframes'[i].key = keyframes'[j].key => i = j
                   /\ lastKeyframeTime' = timestamp
                   /\ Len(emitted') = 1
                   /\ emitted'[1].type = "keyframe"
                   /\ emitted'[1].data.timestamp = timestamp
    ]_vars

\* An in-bounds record() made closer than the interval to a stored keyframe was dropped.
C1_Witness ==
    /\ isRecording
    /\ lastOp = "recordKeyframe"
    /\ emitted = <<>>
    /\ session.active
    /\ InBounds(session.prev)
    /\ session.prev > lastKeyframeTime
    /\ Len(keyframes) = 1

C2_Stored(timestamp) ==
    /\ Len(keyframes') = Len(keyframes) + 1
    /\ keyframes'[Len(keyframes')].key = timestamp

C2_SessionInvariant ==
    session.active =>
        /\ \A i \in 1..Len(keyframes), j \in 1..Len(keyframes) :
              i # j => Abs(keyframes[i].key - keyframes[j].key) >= 33
        /\ (session.close /\ session.calls >= 2) => Len(keyframes) < session.calls

\* C2: in a recording session made only of record() calls, a call is stored iff
\* it is the first in-bounds call of the session or its timestamp is at least
\* minInterval after the last stored timestamp; any two stored keyframes are at
\* least minInterval apart; a stream of two or more calls spaced closer than
\* minInterval stores fewer keyframes than calls issued.
C2_SessionSpacing ==
    /\ []C2_SessionInvariant
    /\ [][\A timestamp \in Times, selection \in Selections :
             (session.active /\ recordKeyframe(timestamp, selection)) =>
                 IF /\ InBounds(timestamp)
                    /\ \/ ~session.inBounds
                       \/ timestamp - session.lastStored >= 33
                 THEN C2_Stored(timestamp)
                 ELSE keyframes' = keyframes
       ]_vars

\* A session of three calls of which two, an interval apart, were stored.
C2_Witness ==
    /\ session.active
    /\ session.calls >= 3
    /\ Len(keyframes) = 2
    /\ lastOp = "recordKeyframe"

\* C3: every keyframe timestamp in the track lies within [0, videoDuration].
C3_TimestampsWithinDuration ==
    \A i \in 1..Len(keyframes) :
        /\ keyframes[i].key >= 0
        /\ keyframes[i].key <= videoDuration

-----------------------------------------------------------------------------
(* Claims about the read operations *)

TrackKeys == {keyframes[i].key : i \in 1..Len(keyframes)}
SelectionAt(timestamp) ==
    (CHOOSE e \in {keyframes[i] : i \in 1..Len(keyframes)} : e.key = timestamp).kf.selection
FirstKey == CHOOSE k \in TrackKeys : \A other \in TrackKeys : k <= other
LastKey == CHOOSE k \in TrackKeys : \A other \in TrackKeys : k >= other
Interpolated == lastOp = "getInterpolatedSelection"

\* C4: for a non-empty track, interpolate(t) returns the selection of the keyframe
\* at t when t is a keyframe timestamp, the first keyframe's selection when t is
\* before the first timestamp and the last keyframe's selection when t is after
\* the last; it returns null exactly when the track is empty.
C4_InterpolateAtAndBeyondKeyframes ==
    Interpolated =>
        LET t == result.args.timestamp
            value == result.value
        IN  /\ (value.kind = "null") <=> (keyframes = <<>>)
            /\ (keyframes # <<>> /\ t \in TrackKeys) =>
                  (value.kind = "stored" /\ value.sel = SelectionAt(t))
            /\ (keyframes # <<>> /\ t < FirstKey) =>
                  (value.kind = "stored" /\ value.sel = SelectionAt(FirstKey))
            /\ (keyframes # <<>> /\ t > LastKey) =>
                  (value.kind = "stored" /\ value.sel = SelectionAt(LastKey))

\* A query before the first of two keyframes that hold different selections.
C4_Witness ==
    /\ Interpolated
    /\ Len(keyframes) = 2
    /\ result.args.timestamp < FirstKey
    /\ SelectionAt(FirstKey) # SelectionAt(LastKey)
    /\ result.value.kind = "stored"

\* before + (after - before) * (t - tBefore) / (tAfter - tBefore), exactly
C5_Linear(before, after, t, tBefore, tAfter) ==
    Rat(before * (tAfter - tBefore) + (after - before) * (t - tBefore), tAfter - tBefore)

C5_Scenario ==
    interpolateSelection(
        [x |-> 0, y |-> 0, width |-> 100, height |-> 100, zoom |-> 10],
        [x |-> 100, y |-> 0, width |-> 100, height |-> 100, zoom |-> 10],
        1000, 3000, 2000, FALSE)
    = [x |-> <<50, 1>>, y |-> <<0, 1>>, width |-> <<100, 1>>, height |-> <<100, 1>>,
       zoom |-> <<10, 1>>]

\* C5: with smoothing disabled, for t strictly between two neighbouring keyframe
\* timestamps tBefore < t < tAfter, interpolate(t) returns for each of x, y, width,
\* height and zoom the value before + (after - before) * (t - tBefore) / (tAfter -
\* tBefore); keyframes x=0 at t=1 and x=100 at t=3 give x=50 at t=2.
C5_LinearInterpolation ==
    /\ C5_Scenario
    /\ (Interpolated /\ ~result.args.SMOOTHING) =>
        LET t == result.args.timestamp
            earlier == {k \in TrackKeys : k < t}
            later == {k \in TrackKeys : k > t}
        IN  (t \notin TrackKeys /\ earlier # {} /\ later # {}) =>
                LET tBefore == CHOOSE k \in earlier : \A other \in earlier : k >= other
                    tAfter == CHOOSE k \in later : \A other \in later : k <= other
                    before == SelectionAt(tBefore)
                    after == SelectionAt(tAfter)
                    sel == result.value.sel
                IN  /\ result.value.kind = "fresh"
                    /\ sel.x = C5_Linear(before.x, after.x, t, tBefore, tAfter)
                    /\ sel.y = C5_Linear(before.y, after.y, t, tBefore, tAfter)
                    /\ sel.width = C5_Linear(before.width, after.width, t, tBefore, tAfter)
                    /\ sel.height = C5_Linear(before.height, after.height, t, tBefore, tAfter)
                    /\ sel.zoom = C5_Linear(before.zoom, after.zoom, t, tBefore, tAfter)

\* A query a third of the way between two keyframes that hold different selections.
C5_Witness ==
    /\ Interpolated
    /\ ~result.args.SMOOTHING
    /\ TrackKeys = {0, 3 * TimeStep}
    /\ result.args.timestamp = TimeStep
    /\ SelectionAt(0) # SelectionAt(3 * TimeStep)
    /\ result.value.kind = "fresh"

Ascending(numbers) ==
    \A i \in 1..Len(numbers), j \in 1..Len(numbers) : i < j => numbers[i] < numbers[j]

\* C6: getTimestampsSorted() is strictly ascending with no duplicates (and lists
\* the track's timestamps), and exportRange(start, end) returns exactly the
\* keyframes with start <= timestamp <= end in ascending timestamp order.
C6_SortedReads ==
    /\ lastOp = "getKeyframeTimestamps" =>
          /\ Ascending(result.value)
          /\ {result.value[i] : i \in 1..Len(result.value)} = TrackKeys
    /\ lastOp = "exportKeyframes" =>
          LET exported == result.value.keyframes
              inRange == {keyframes[i].kf : i \in 1..Len(keyframes)} \cap
                         {kf \in Keyframes : /\ kf.timestamp >= result.args.startTime
                                             /\ kf.timestamp <= result.args.endTime}
          IN  /\ {exported[i] : i \in 1..Len(exported)} = inRange
              /\ Ascending([i \in 1..Len(exported) |-> exported[i].timestamp])

\* An export of two keyframes that were inserted in descending order, one at each
\* end of the range.
C6_Witness ==
    /\ lastOp = "exportKeyframes"
    /\ Len(keyframes) = 2
    /\ keyframes[1].key = result.args.endTime
    /\ keyframes[2].key = result.args.startTime
    /\ Len(result.value.keyframes) = 2

-----------------------------------------------------------------------------
(* Claims about aliasing, startRecording and stopRecording *)

\* C7: the stored keyframes change only through track operations: a caller's
\* write to the selection it passed to record, to an object returned by
\* interpolate or exportRange, or to a keyframe object it passed to import never
\* changes the track.
C7_NoExternalAliasing ==
    [][lastOp' = "callerWrite" => keyframes' = keyframes]_vars

\* C8: startRecording(videoDuration) called while not recording leaves the track
\* empty, lastKeyframeTime = 0, the stored duration = videoDuration and the
\* recording flag true, and emits exactly one started event.
C8_StartRecordingResets ==
    [][\A duration \in Durations :
          (~isRecording /\ startRecording(duration)) =>
              /\ keyframes' = <<>>
              /\ lastKeyframeTime' = 0
              /\ videoDuration' = duration
              /\ isRecording' = TRUE
              /\ Len(emitted') = 1
              /\ emitted'[1].type = "started"
    ]_vars

\* A recording was started (the track before it may hold keyframes: Spec reaches
\* startRecording from every stopped state).
C8_Witness ==
    /\ lastOp = "startRecording"
    /\ Len(emitted) = 1
    /\ isRecording
    /\ videoDuration = MaxTick * TimeStep
    /\ keyframes = <<>>

C10_StopRecording ==
    [][stopRecording =>
          IF ~isRecording
          THEN /\ emitted' = <<>>
               /\ UNCHANGED <<isRecording, keyframes, videoDuration, lastKeyframeTime>>
          ELSE /\ isRecording' = FALSE
               /\ UNCHANGED <<keyframes, videoDuration, lastKeyframeTime>>
               /\ Len(emitted') = 1
               /\ emitted'[1].type = "stopped"
               /\ emitted'[1].data.totalKeyframes = Cardinality(TrackKeys)
               /\ emitted'[1].data.duration = videoDuration
    ]_vars

\* A recording that holds two keyframes was stopped.
C10_Witness ==
    /\ lastOp = "stopRecording"
    /\ ~isRecording
    /\ Len(emitted) = 1
    /\ emitted[1].data.totalKeyframes = 2
    /\ Len(keyframes) = 2

\* C11: record(timestamp, selection) is a silent no-op (nothing thrown, no
\* event, track and lastKeyframeTime unchanged) when the recorder is not
\* recording, or when timestamp < 0 or timestamp > videoDuration.
C11_RecordIgnored ==
    [][\A timestamp \in Times, selection \in Selections :
          (/\ ~isRecording \/ timestamp < 0 \/ timestamp > videoDuration
           /\ recordKeyframe(timestamp, selection)) =>
              /\ thrown' = "none"
              /\ emitted' = <<>>
              /\ keyframes' = keyframes
              /\ lastKeyframeTime' = lastKeyframeTime
    ]_vars

\* The first record() of a session came with a timestamp beyond videoDuration.
C11_Witness ==
    /\ lastOp = "recordKeyframe"
    /\ isRecording
    /\ session.active
    /\ session.calls = 1
    /\ session.prev > videoDuration
    /\ keyframes = <<>>

\* The keyframe that data.keyframes lists last for a timestamp.
C12_LastListed(list, timestamp) ==
    list[CHOOSE j \in 1..Len(list) :
            /\ list[j].timestamp = timestamp
            /\ \A k \in (j + 1)..Len(list) : list[k].timestamp # timestamp]

\* C12: import(data) replaces the whole track: afterwards the track holds exactly
\* one keyframe per distinct timestamp of data.keyframes, the last one listed
\* for that timestamp, and nothing it held before; the recording flag is
\* unchanged.
C12_ImportReplaces ==
    [][lastOp' = "importKeyframes" =>
          LET list == IF imported'.hasKeyframes THEN imported'.keyframes ELSE <<>>
              listed == {list[j].timestamp : j \in 1..Len(list)}
          IN  /\ {keyframes'[i].key : i \in 1..Len(keyframes')} = listed
              /\ Len(keyframes') = Cardinality(listed)
              /\ \A i \in 1..Len(keyframes') :
                     keyframes'[i].kf = C12_LastListed(list, keyframes'[i].key)
              /\ isRecording' = isRecording
    ]_vars

\* Two keyframes with one timestamp were imported and one is in the track.
C12_Witness ==
    /\ lastOp = "importKeyframes"
    /\ Len(emitted) = 2
    /\ emitted[2].data.importedCount = 2
    /\ Len(keyframes) = 1
    /\ keyframes[1].kf.selection = SelB

\* C13: while recording, every time-update tick pushes (currentTime, selection)
\* into the track: unless the spacing policy drops it, a keyframe is stored at
\* the tick's time; a tick while not recording leaves the track unchanged.
C13_TicksRecord ==
    [][handled'.handler = "handleVideoTimeUpdate" =>
          IF /\ isRecording
             /\ editorTime' >= 0 /\ editorTime' <= videoDuration
             /\ ~(/\ editorTime' - lastKeyframeTime < 33
                  /\ \E i \in 1..Len(keyframes) : keyframes[i].key = lastKeyframeTime)
          THEN /\ \E i \in 1..Len(keyframes') : keyframes'[i].key = editorTime'
               /\ lastKeyframeTime' = editorTime'
          ELSE keyframes' = keyframes
    ]_vars

\* C14: when Stop is pressed or the video ends while recording is active, the
\* recording is stopped in the same step: afterwards isPlaying and isRecording
\* are both false and the track holds the keyframes it held.
C14_StopEndsRecording ==
    [][(isRecording /\ handled'.handler \in {"handleStop", "handleVideoEnded"}) =>
          /\ ~isPlaying'
          /\ ~isRecording'
          /\ keyframes' = keyframes
    ]_vars

\* Stop was pressed during a recording that holds a keyframe.
C14_Witness ==
    /\ handled.handler = "handleStop"
    /\ lastOp = "stopRecording"
    /\ Len(emitted) = 1
    /\ emitted[1].type = "stopped"
    /\ keyframes # <<>>
    /\ ~isRecording
    /\ ~isPlaying

\* C15: when an uploaded video has finished loading, the track is empty and the
\* recorder is not recording.
C15_LoadClearsTrack ==
    handled.handler = "onLoadedMetadata" => (keyframes = <<>> /\ ~isRecording)

\* An upload finished loading while a recording was active.
C15_Witness ==
    /\ handled.handler = "onLoadedMetadata"
    /\ Len(emitted) = 2
    /\ emitted[2].type = "stopped"
    /\ videoDuration # editorDuration

C16_TrimRange ==
    trimHistory.initialised =>
        (0 <= trimStart /\ trimStart < trimEnd /\ trimEnd <= editorDuration)

\* C16: once the trim range has been initialised for a video of duration > 0,
\* 0 <= trimStart < trimEnd <= duration in every reachable state; a move of a
\* trim handle clamps the requested time to [0, duration], and a start value
\* >= trimEnd or an end value <= trimStart leaves the range unchanged.
C16_TrimRangeKept ==
    /\ []C16_TrimRange
    /\ [][\A requested \in Times :
             (trimHistory.initialised /\ handleTrimMouseMove(requested)) =>
                 LET clamped == IF requested < 0 THEN 0
                                ELSE IF requested > editorDuration THEN editorDuration
                                ELSE requested
                 IN  IF activeTrimHandle = "start"
                     THEN /\ trimEnd' = trimEnd
                          /\ trimStart' = IF clamped >= trimEnd THEN trimStart ELSE clamped
                     ELSE /\ trimStart' = trimStart
                          /\ trimEnd' = IF clamped <= trimStart THEN trimEnd ELSE clamped
       ]_vars

\* Both handles were moved inwards, and a move that would invert the range was
\* refused.
C16_Witness ==
    /\ handled.handler = "handleTrimMouseMove"
    /\ trimHistory.initialised
    /\ trimHistory.adjusted
    /\ trimStart > 0
    /\ trimEnd < editorDuration

\* C17: once a source video's metadata has loaded, the initial video as well as
\* an uploaded file, the trim range is {start: 0, end: duration} until the user
\* adjusts it.
C17_TrimDefaultsToFullVideo ==
    (editorDuration > 0 /\ ~trimHistory.adjusted) =>
        (trimStart = 0 /\ trimEnd = editorDuration)

\* The timestamps of the track that lie within the trim range.
TrimmedKeys == {k \in TrackKeys : k >= trimStart /\ k <= trimEnd}

\* C18: an export of an uploaded video when no keyframe lies within
\* [trimStart, trimEnd] fails with NoKeyframes: the renderer is not invoked,
\* the track and the trim range are unchanged.
C18_ExportWithoutKeyframes ==
    [][(handled'.handler = "handleExport" /\ videoBlob /\ TrimmedKeys = {}) =>
          /\ handled'.alert = "NoKeyframes"
          /\ ~handled'.render.invoked
          /\ UNCHANGED <<keyframes, trimStart, trimEnd>>
    ]_vars

\* C19: on export the renderer receives the keyframes of
\* exportRange(trimStart, trimEnd) in ascending order, each with
\* timestamp - trimStart and its selection unchanged; the track keeps its
\* timestamps.
C19_ExportRetimestamps ==
    [][(handled'.handler = "handleExport" /\ videoBlob /\ TrimmedKeys # {}) =>
          /\ handled'.render.invoked
          /\ handled'.render.thrown = "none"
          /\ handled'.render.relativeKeyframes =
                 RelativeKeyframes(exportKeyframes(trimStart, trimEnd).keyframes, trimStart)
          /\ keyframes' = keyframes
    ]_vars

\* The timestamps of the keyframes the last handler handed to renderer.render.
C20_Handed ==
    IF handled.render.invoked
    THEN {handled.render.argument.object.keyframes[i].timestamp :
              i \in 1..Len(handled.render.argument.object.keyframes)}
    ELSE {}

\* C20: the keyframes an export hands to the renderer are exactly those whose
\* timestamp lies in [trimStart, trimEnd].
C20_ExportHandsTrimmedKeyframes ==
    (handled.handler = "handleExport" /\ videoBlob) => C20_Handed = TrimmedKeys

\* The keyframes of the last render whose relative timestamp is <= t.
C21_Held(t) ==
    {i \in 1..Len(handled.render.relativeKeyframes) :
        handled.render.relativeKeyframes[i].timestamp <= t}

\* The latest of them.
C21_Latest(t) ==
    handled.render.relativeKeyframes[
        CHOOSE i \in C21_Held(t) :
            \A j \in C21_Held(t) :
                handled.render.relativeKeyframes[j].timestamp <=
                handled.render.relativeKeyframes[i].timestamp]

\* C21: the zoom, x and y expressions form a zero-order hold: at every render
\* time t in [0, trimEnd - trimStart) with a keyframe at or before t, they
\* evaluate to the zoom, x and y of the latest keyframe whose relative
\* timestamp is <= t.
C21_ZeroOrderHold ==
    (handled.handler = "zoompan" /\ C21_Held(handled.frame.t) # {}) =>
        /\ handled.frame.zoom = Number(C21_Latest(handled.frame.t).selection.zoom)
        /\ handled.frame.x = Number(C21_Latest(handled.frame.t).selection.x)
        /\ handled.frame.y = Number(C21_Latest(handled.frame.t).selection.y)

(***************************************************************************)
(* C22, C23, C24: an export whose render is in flight.  handleExport sets   *)
(* currentMode to 'export' and calls updateModeDisplay() before it reaches  *)
(* its first await; the RangeError runs the catch and the finally block in  *)
(* the same turn of the event loop.  No state of the editor has an export   *)
(* in flight, so nothing can be observed about events arriving during a     *)
(* render, about a cancel of it, or about the engine rejecting it.          *)
(***************************************************************************)

\* An export is in flight: the handler has yielded at its await of render.
ExportInFlight == currentMode = "export"

\* No export is ever in flight, and no export invokes the renderer.
ExportNeverInFlight ==
    /\ ~ExportInFlight
    /\ handled.handler = "handleExport" => ~handled.render.invoked

(***************************************************************************)
(* C25..C27, C30: the selection rect and its interaction state.             *)
(***************************************************************************)

\* The interaction state the two flags stand for.
InteractionState(this) ==
    IF this.isDragging /\ this.isResizing THEN "dragging+resizing"
    ELSE IF this.isDragging THEN "dragging"
    ELSE IF this.isResizing THEN "resizing"
    ELSE "idle"

\* (x, y) is within the handle hit-radius of one of the four corners.
OnCorner(this, x, y) ==
    \E cx \in {this.selection.x, RAdd(this.selection.x, this.selection.width)},
       cy \in {this.selection.y, RAdd(this.selection.y, this.selection.height)} :
        /\ RLeq(RAbs(RSub(x, cx)), IntRat(HANDLE_SIZE))
        /\ RLeq(RAbs(RSub(y, cy)), IntRat(HANDLE_SIZE))

\* C25: the interaction state changes only idle -> dragging on a press inside
\* the rect, idle -> resizing on a press on a corner handle, dragging or
\* resizing -> idle on release; those presses and releases do change it; a
\* press outside the rect and off the handles leaves the state idle and the
\* selection unchanged.
C25_InteractionStates ==
    [][LET before == InteractionState(controller)
           after == InteractionState(controller')
           press == pointed'.handler = "handleMouseDown"
           release == pointed'.handler = "handleMouseUp"
           px == IntRat(pointed'.x)
           py == IntRat(pointed'.y)
           inside == isInsideSelection(controller, px, py)
           onHandle == OnCorner(controller, px, py)
       IN  /\ before # after =>
                \/ before = "idle" /\ after = "dragging" /\ press /\ inside
                \/ before = "idle" /\ after = "resizing" /\ press /\ onHandle
                \/ before \in {"dragging", "resizing"} /\ after = "idle" /\ release
           /\ (press /\ before = "idle" /\ onHandle) => after = "resizing"
           /\ (press /\ before = "idle" /\ inside /\ ~onHandle) => after = "dragging"
           /\ (release /\ before \in {"dragging", "resizing"}) => after = "idle"
           /\ (press /\ before = "idle" /\ ~inside /\ ~onHandle) =>
                  /\ after = "idle"
                  /\ controller'.selection = controller.selection]_vars

\* The rect lies inside the canvas and has a positive width and height.
InsideCanvas(this) ==
    /\ RLeq(Zero, this.selection.x)
    /\ RLeq(Zero, this.selection.y)
    /\ RLeq(RAdd(this.selection.x, this.selection.width), IntRat(this.canvas.width))
    /\ RLeq(RAdd(this.selection.y, this.selection.height), IntRat(this.canvas.height))
    /\ RLess(Zero, this.selection.width)
    /\ RLess(Zero, this.selection.height)

\* A rect of width 100 on a canvas 500 wide, in a drag whose next move to
\* x = 150 computes the origin x = -20.
C26_Scenario(source) ==
    [source |-> source,
     canvas |-> [width |-> 500, height |-> 450],
     selection |-> [x |-> IntRat(30), y |-> IntRat(100), width |-> IntRat(100),
                    height |-> IntRat(100), zoom |-> 10],
     isDragging |-> TRUE,
     isResizing |-> FALSE,
     dragStart |-> IF source = "part_006" THEN [x |-> IntRat(170), y |-> IntRat(100)]
                   ELSE [x |-> IntRat(200), y |-> IntRat(200)],
     resizeHandle |-> "null"]

AppliedZoom(this, newZoom) ==
    IF this.source = "part_006" THEN applyZoom_part006(this, newZoom)
    ELSE applyZoom(this, newZoom)

\* C27: a wheel step sets zoom to clamp(zoom + delta, MIN_ZOOM, MAX_ZOOM),
\* which is within [0.3, 3.0]; a step that does not change zoom leaves the
\* selection unchanged and notifies nobody, and applyZoom with the zoom
\* already set changes nothing; after every applied step width <= canvasWidth
\* and height <= canvasHeight.
C27_ZoomStep ==
    [][pointed'.handler = "handleWheel" =>
        LET zoom == controller.selection.zoom
            sum == zoom + pointed'.x
            newZoom == IF sum < MIN_ZOOM THEN MIN_ZOOM
                       ELSE IF sum > MAX_ZOOM THEN MAX_ZOOM ELSE sum
            after == controller'.selection
        IN  /\ after.zoom = newZoom
            /\ after.zoom >= MIN_ZOOM /\ after.zoom <= MAX_ZOOM
            /\ newZoom = zoom =>
                   /\ controller' = controller
                   /\ ~pointed'.notified.called
            /\ AppliedZoom(controller', after.zoom) = controller'
            /\ newZoom # zoom =>
                   /\ RLeq(after.width, IntRat(controller.canvas.width))
                   /\ RLeq(after.height, IntRat(controller.canvas.height))]_vars

\* A wheel step against the upper bound has been ignored, and one was applied.
C27_Witness ==
    /\ pointed.handler = "handleWheel"
    /\ pointed.x = ZOOM_SENSITIVITY
    /\ controller.selection.zoom = MAX_ZOOM
    /\ ~pointed.notified.called

\* C30: throughout one drag, after every move the rect origin is the pointer
\* position minus the anchor offset captured at press time, clamped to
\* [0, canvasWidth - width] x [0, canvasHeight - height].
C30_DragFollowsAnchor ==
    [][(pointed'.handler = "handleMouseMove" /\ controller.isDragging) =>
        LET sel == controller.selection
            maxX == RSub(IntRat(controller.canvas.width), sel.width)
            maxY == RSub(IntRat(controller.canvas.height), sel.height)
        IN  /\ controller'.selection.x =
                   RMax(Zero, RMin(maxX, RSub(IntRat(pointed'.x), anchor.x)))
            /\ controller'.selection.y =
                   RMax(Zero, RMin(maxY, RSub(IntRat(pointed'.y), anchor.y)))]_vars

\* C28: the crop's display-to-video mapping inverts the drawing. Whenever a
\* frame has been drawn, the video point that was drawn at a canvas point is
\* the point the preview reads back for that canvas point, whatever video the
\* element holds and whatever video the canvas was sized for.
C28_CropInvertsDrawing ==
    mapped.drawn => mapped.back = mapped.point

\* The canvas has exactly the aspect ratio of the video it shows.
SameAspect ==
    landscapeCanvas.width * sourceVideo.videoHeight
        = landscapeCanvas.height * sourceVideo.videoWidth

\* Where the mapping does invert the drawing: on a canvas of the video's aspect.
CropInvertsDrawingOnSameAspect ==
    [][(mapped' # mapped /\ SameAspect) => mapped'.back = mapped'.point]_vars

\* C29: while recording, record(timestamp, selection) at an in-bounds timestamp
\* that already holds a keyframe overwrites it: the track keeps its number of
\* keyframes and the keyframe at timestamp carries the new selection.
C29_RerecordOverwrites ==
    [][\A timestamp \in Times, selection \in Selections :
          (/\ isRecording
           /\ InBounds(timestamp)
           /\ MapHas(keyframes, timestamp)
           /\ recordKeyframe(timestamp, selection)) =>
              /\ Len(keyframes') = Len(keyframes)
              /\ MapHas(keyframes', timestamp)
              /\ MapValue(keyframes', timestamp).selection = selection
    ]_vars

\* Where re-recording does overwrite: when the spacing test lets the call through.
RerecordOverwritesUnlessSkipped ==
    [][\A timestamp \in Times, selection \in Selections :
          (/\ MapHas(keyframes, timestamp)
           /\ ~KeyframeSkipped(timestamp)
           /\ recordKeyframe(timestamp, selection)) =>
              /\ Len(keyframes') = Len(keyframes)
              /\ MapValue(keyframes', timestamp).selection = selection
    ]_vars

\* A keyframe was overwritten by a later record() at its timestamp.
RerecordOverwrote ==
    /\ lastOp = "recordKeyframe"
    /\ Len(emitted) = 1
    /\ Len(keyframes) = 2
    /\ keyframes[1].key = lastKeyframeTime

\* A mousemove that handleMouseMove hands to handleResize.
ResizeStep ==
    /\ pointed'.handler = "handleMouseMove"
    /\ controller.source = "selectionController.js"
    /\ controller.isResizing
    /\ ~controller.isDragging

\* C31: after every resize step, from whatever reachable selection and with
\* whichever corner handle, width and height are at least the minimum (50)
\* and the rect lies within the canvas.
C31_ResizeKeepsMinimum ==
    [][ResizeStep =>
          /\ RLeq(IntRat(MIN_WIDTH), controller'.selection.width)
          /\ RLeq(IntRat(MIN_WIDTH), controller'.selection.height)
          /\ InsideCanvas(controller')]_vars

\* What does hold: a resize step never makes a side shorter than the minimum
\* unless it already was, and the rect stays within the canvas.
ResizeKeepsMinimumOrSize ==
    [][ResizeStep =>
          /\ \/ RLeq(IntRat(MIN_WIDTH), controller'.selection.width)
             \/ controller'.selection.width = controller.selection.width
          /\ \/ RLeq(IntRat(MIN_WIDTH), controller'.selection.height)
             \/ controller'.selection.height = controller.selection.height
          /\ InsideCanvas(controller')]_vars

\* C32: every pointer move while dragging notifies the observer, synchronously,
\* with the selection as the move left it; a move while resizing updates the
\* rect without notifying anybody.
C32_DragNotifiesLive ==
    [][pointed'.handler = "handleMouseMove" =>
          /\ controller.isDragging => pointed'.notified = Notified(controller')
          /\ (controller.isResizing /\ ~controller.isDragging) =>
                 ~pointed'.notified.called]_vars

\* The class of part_006 notifies on every move of a drag.
DragNotifiesLive_part006 ==
    [][(pointed'.handler = "handleMouseMove" /\ controller.source = "part_006"
            /\ controller.isDragging) =>
          pointed'.notified = Notified(controller')]_vars

\* C33: a release that ends a drag or a resize leaves the controller idle and
\* notifies the observer once, with the final selection; a release while
\* idle changes nothing and notifies nobody.
C33_ReleaseEndsInteraction ==
    [][pointed'.handler = "handleMouseUp" =>
          IF controller.isDragging \/ controller.isResizing
          THEN /\ ~controller'.isDragging
               /\ ~controller'.isResizing
               /\ controller'.selection = controller.selection
               /\ pointed'.notified = Notified(controller')
          ELSE /\ controller' = controller
               /\ ~pointed'.notified.called]_vars

\* The same, for the class of selectionController.js alone.
ReleaseEndsInteraction_selectionController ==
    [][(pointed'.handler = "handleMouseUp"
            /\ controller.source = "selectionController.js") =>
          IF controller.isDragging \/ controller.isResizing
          THEN /\ ~controller'.isDragging
               /\ ~controller'.isResizing
               /\ controller'.resizeHandle = "null"
               /\ controller'.selection = controller.selection
               /\ pointed'.notified = Notified(controller')
          ELSE /\ controller' = controller
               /\ ~pointed'.notified.called]_vars

\* C34: preview playback loops inside the trimmed window. A time update that
\* finds the playback time >= trimEnd or < trimStart while the editor is
\* playing resets the position to trimStart and leaves the editor playing.
C34_PlaybackLoopsInWindow ==
    [][\A mediaTime \in Times :
          (/\ isPlaying
           /\ mediaTime >= trimEnd \/ mediaTime < trimStart
           /\ handleVideoTimeUpdate(mediaTime)) =>
              /\ editorTime' = trimStart
              /\ isPlaying']_vars

\* What the handler does: it resets the position and pauses.
PlaybackPausesAtWindowEnd ==
    [][\A mediaTime \in Times :
          (/\ mediaTime >= trimEnd \/ mediaTime < trimStart
           /\ handleVideoTimeUpdate(mediaTime)) =>
              /\ editorTime' = trimStart
              /\ ~isPlaying']_vars

\* The track is not empty and its timestamps lie in [0, videoDuration].
TrackInBounds ==
    /\ keyframes # <<>>
    /\ \A i \in 1..Len(keyframes) : InBounds(keyframes[i].key)

\* C35: for every non-empty track with timestamps in [0, duration], the stats
\* report count = number of keyframes, first = the smallest timestamp, last =
\* the largest timestamp and mean interval = (last - first) / (count - 1) when
\* count >= 2, else 0.
C35_StatsOfTrack ==
    (result.op = "getRecordingStats" /\ TrackInBounds) =>
        LET count == Len(keyframes)
            first == CHOOSE t \in Keys(keyframes) : \A u \in Keys(keyframes) : t <= u
            last == CHOOSE t \in Keys(keyframes) : \A u \in Keys(keyframes) : t >= u
        IN  /\ result.value.totalKeyframes = count
            /\ result.value.firstKeyframe = [null |-> FALSE, value |-> first]
            /\ result.value.lastKeyframe = [null |-> FALSE, value |-> last]
            /\ result.value.averageInterval =
                   IF count >= 2 THEN Rat(last - first, count - 1) ELSE IntRat(0)

\* What does hold: the same, with a first or last timestamp of 0 reported as null.
StatsOfTrackWithNull ==
    (result.op = "getRecordingStats" /\ TrackInBounds) =>
        LET count == Len(keyframes)
            first == CHOOSE t \in Keys(keyframes) : \A u \in Keys(keyframes) : t <= u
            last == CHOOSE t \in Keys(keyframes) : \A u \in Keys(keyframes) : t >= u
        IN  /\ result.value.totalKeyframes = count
            /\ result.value.firstKeyframe =
                   IF first = 0 THEN [null |-> TRUE] ELSE [null |-> FALSE, value |-> first]
            /\ result.value.lastKeyframe =
                   IF last = 0 THEN [null |-> TRUE] ELSE [null |-> FALSE, value |-> last]
            /\ result.value.averageInterval =
                   IF count >= 2 THEN Rat(last - first, count - 1) ELSE IntRat(0)

\* C36: under any sequence of presses, moves and releases on the canvas, a
\* press following a press with no release between included, isDragging and
\* isResizing are never both true and resizeHandle is set only while resizing.
C36_OneInteractionAtATime ==
    controller.source # "none" =>
        /\ ~(controller.isDragging /\ controller.isResizing)
        /\ (controller.source = "selectionController.js"
                /\ controller.resizeHandle # "null") => controller.isResizing

\* What does hold: resizeHandle is set exactly while resizing.
HandleWhileResizing ==
    controller.source = "selectionController.js" =>
        (controller.resizeHandle # "null" <=> controller.isResizing)

\* C37: whenever no export is in flight, currentMode is 'record' exactly when
\* the recorder is recording.
C37_ModeFollowsRecorder ==
    ~ExportInFlight => (currentMode = "record" <=> isRecording)

\* What does hold: the mode is 'record' only if Record started a recording
\* that Record itself has not stopped.
RecordModeOnlyAfterRecord ==
    [][(currentMode # "record" /\ currentMode' = "record") =>
          (handled'.handler = "handleRecord" /\ isRecording')]_vars

\* C39: handleRecord, handleStop and handleExport each run to completion:
\* updateRecordingState and updateModeDisplay return, so the handler returns
\* to its caller instead of being cut short by an error.
C39_HandlersComplete ==
    handled.handler \in {"handleRecord", "handleStop", "handleExport"} =>
        handled.thrown = "none"

\* What does hold: a handler is cut short exactly when it reaches updateModeDisplay.
HandlersCutShortByModeDisplay ==
    /\ handled.handler = "handleRecord" => handled.thrown = "RangeError"
    /\ handled.handler \in {"handleStop", "handleExport"} =>
           handled.thrown \in {"none", "RangeError"}
    /\ (handled.handler = "handleExport" /\ handled.alert # "UploadFirst") =>
           handled.thrown = "RangeError"

\* The selection after a wheel step of -zoomDelta delivered next.
WheelBack(this, zoomDelta) == handleWheel(this, -zoomDelta).selection

\* C40: wheel zoom is reversible. When a wheel step changes zoom and the
\* opposite wheel step delivered next changes it too, the two together
\* restore the zoom value and the rect's width and height.
C40_ZoomReversible ==
    [][(pointed'.handler = "handleWheel"
            /\ controller'.selection.zoom # controller.selection.zoom
            /\ WheelBack(controller', pointed'.x).zoom # controller'.selection.zoom) =>
          /\ WheelBack(controller', pointed'.x).zoom = controller.selection.zoom
          /\ WheelBack(controller', pointed'.x).width = controller.selection.width
          /\ WheelBack(controller', pointed'.x).height = controller.selection.height]_vars

\* What does hold: the zoom value is restored, and so are width and height
\* when the first step left the rect smaller than the canvas in both directions.
ZoomReversibleInsideCanvas ==
    [][(pointed'.handler = "handleWheel"
            /\ controller'.selection.zoom # controller.selection.zoom
            /\ WheelBack(controller', pointed'.x).zoom # controller'.selection.zoom) =>
          /\ WheelBack(controller', pointed'.x).zoom = controller.selection.zoom
          /\ (/\ RLess(controller'.selection.width, IntRat(controller.canvas.width))
              /\ RLess(controller'.selection.height, IntRat(controller.canvas.height))) =>
                 /\ WheelBack(controller', pointed'.x).width = controller.selection.width
                 /\ WheelBack(controller', pointed'.x).height = controller.selection.height]_vars

====
